---- MODULE Spec2Model ----
(***************************************************************************)
(* Office-automation dashboard: the task repository (TaskContext), the     *)
(* Task model's (de)serialisation and the run_task dispatcher of           *)
(* controllers/task_controller.py, as a state machine.                     *)
(*                                                                         *)
(* The store is the sqlite table `tasks`; every HTTP request is a process  *)
(* with its own local Task object.  Store failures are modelled where the  *)
(* code writes (execute/commit of update_task): a failed write raises and  *)
(* leaves the table as it was.  Message texts are written without          *)
(* diacritics.                                                             *)
(*                                                                         *)
(* Beside the dispatcher stand the repositories called directly            *)
(* (TaskContext, ProjectContext: SpecRepo, SpecRead, SpecProject,          *)
(* SpecMembership), LLMService.chat_with_project with the semantic client  *)
(* (SpecChat) and PdfService.merge_pdfs on a changing file system          *)
(* (SpecMerge).  Each of those calls is one step; the variable `call`      *)
(* remembers the last one.                                                 *)
(***************************************************************************)
EXTENDS Integers, Sequences, FiniteSets, TLC

\* ------------------------------------------------------------------ bounds
MaxTasks == 1      \* rows ever inserted into `tasks`
MaxClock == 3      \* the clock runs 0..MaxClock: one reading per run_task request

Requests == {"r1", "r2"}    \* HTTP requests that may be in flight at once
TaskIds == 1..(MaxTasks + 1) \* ids a caller may name (one never assigned)

VARIABLES
    tasks,       \* the table `tasks`: id -> row (columns as stored, TEXT for JSON/dates)
    lastrowid,   \* AUTOINCREMENT counter of the table
    now,         \* datetime.now(): advances whenever a run_task request arrives
    pc,          \* per request: where run_task stands
    task,        \* per request: the local Task object of run_task
    result,      \* per request: the local `result` of run_task
    exc,         \* per request: the exception `e` caught at line 203
    response,    \* per request: the response returned
    trace,       \* per request (history): what this call has done so far
    lastOutcome, \* per task id (history): what the handler returned in the run
                 \* that last wrote a terminal status
    projects,    \* the table `projects`: id -> row
    files,       \* the file system: the paths, or the entries, that exist
    service_available,  \* SemanticApiClient._service_available: the cached probe
    call,        \* (history) the last repository or service call outside
                 \* run_task: its name, arguments and how it ended
    documents,   \* document_controller.documents: the list of Document records
    assigned,    \* (history) every (id, file_path) an upload has put on a record
    local_project  \* per request: the local Project of add_task_to_project

vars == <<tasks, lastrowid, now, pc, task, result, exc, response, trace, lastOutcome,
          projects, files, service_available, call, documents, assigned, local_project>>

\* ------------------------------------------------------- Python values
\* Optional[T]: None, or a value.
None == {}
Some(v) == {v}
Value(o) == CHOOSE v \in o : TRUE

\* JSON-compatible containers: a dict (val is a record) or a list (val is a
\* sequence).  Caller-supplied scalars (task parameters) are tagged with their
\* Python type; the envelopes the services build hold plain strings.
Dict(r) == [shape |-> "dict", val |-> r]
List(s) == [shape |-> "list", val |-> s]
PyStr(s) == [t |-> "str", v |-> s]
PyInt(n) == [t |-> "int", v |-> n]
PyBool(b) == [t |-> "bool", v |-> b]
Tuple(s) == [shape |-> "tuple", val |-> s]
EmptyDict == Dict(<<>>)
EmptyList == List(<<>>)

\* bool(container): empty containers are falsy.
Truthy(j) == DOMAIN j.val # {}

\* bool(x) of a bool or an int.
ScalarTruthy(x) == IF x.t = "bool" THEN x.v ELSE x.v # 0
\* The number a bool or an int stands for (True == 1, False == 0).
NumberOf(x) == IF x.t = "bool" THEN (IF x.v THEN 1 ELSE 0) ELSE x.v
\* `a == b` on bools and ints.
PyEq(a, b) == NumberOf(a) = NumberOf(b)

\* dict.get(key): AttributeError on a list is the caller's concern.
DictGet(d, key) == IF key \in DOMAIN d.val THEN Some(d.val[key]) ELSE None

\* datetime.isoformat() / datetime.fromisoformat(); a datetime is a clock reading.
isoformat(t) == ToString(t)
fromisoformat(s) ==
    IF \E t \in 0..MaxClock : isoformat(t) = s
    THEN Some(CHOOSE t \in 0..MaxClock : isoformat(t) = s)
    ELSE None

\* json.dumps / json.loads on the containers above: the TEXT of a column.
\* JSON has arrays only: a tuple is written as an array and read as a list.
json_dumps(j) == [json |-> IF j.shape = "tuple" THEN List(j.val) ELSE j]
json_loads(text) == text.json

\* ------------------------------------------------------- SQL column values
\* A TEXT column holds NULL, or a text; a text is either the serialisation of
\* a JSON value (json_dumps) or something json.loads rejects.
SqlNull == [null |-> TRUE]
EmptyText == [text |-> ""]
MalformedText == [text |-> "{not json"]

\* bool(column value): NULL and '' are falsy.
ColumnTruthy(c) == c # SqlNull /\ c # EmptyText

\* Whether json.loads accepts the text (else JSONDecodeError).
json_valid(c) == "json" \in DOMAIN c

\* `if d.get(f): try: json.loads(d[f]) except (JSONDecodeError, TypeError):
\* default; else: default` -- the tolerant read of a JSON column.
LoadJsonField(c, default) ==
    IF ~ColumnTruthy(c) THEN default
    ELSE IF json_valid(c) THEN json_loads(c) ELSE default

\* ------------------------------------------------------- models/task_model.py
\* Task(...) with the dataclass defaults for everything the caller leaves out.
NewTask(category, type, parameters) ==
    [id |-> None, type |-> type, category |-> category, status |-> "pending",
     updated_at |-> None, completed_at |-> None,
     parameters |-> parameters, result |-> EmptyDict, error |-> None,
     name |-> "", priority |-> 1, description |-> "", created_by |-> None,
     is_recurring |-> PyBool(FALSE), recurrence_pattern |-> None, tags |-> EmptyList]

\* Task.to_dict: datetimes become ISO strings.
to_dict(t) ==
    [id |-> t.id, type |-> t.type, category |-> t.category, status |-> t.status,
     updated_at |-> IF t.updated_at # None THEN Some(isoformat(Value(t.updated_at))) ELSE None,
     completed_at |-> IF t.completed_at # None THEN Some(isoformat(Value(t.completed_at))) ELSE None,
     parameters |-> t.parameters, result |-> t.result, error |-> t.error,
     name |-> t.name, priority |-> t.priority, description |-> t.description,
     created_by |-> t.created_by, is_recurring |-> t.is_recurring,
     recurrence_pattern |-> t.recurrence_pattern, tags |-> t.tags]

\* Task.from_dict: ISO strings become datetimes (None when unparsable).
from_dict(d) ==
    [d EXCEPT
        !.updated_at = IF d.updated_at # None THEN fromisoformat(Value(d.updated_at)) ELSE None,
        !.completed_at = IF d.completed_at # None THEN fromisoformat(Value(d.completed_at)) ELSE None]

\* ------------------------------------------------------- contexts/task_context.py
\* The JSON columns as create_task/update_task write them: a falsy value is
\* stored as the column's empty default.
SerializeJsonField(v, default) ==
    IF Truthy(v) THEN json_dumps(v) ELSE json_dumps(default)

\* Mutant of RowOf: the is_recurring column is left at its DEFAULT 0.
RowOf_NotRecurring(t) ==
    LET d == to_dict(t) IN
    [type |-> d.type, category |-> d.category, status |-> d.status,
     updated_at |-> d.updated_at, completed_at |-> d.completed_at,
     parameters |-> SerializeJsonField(d.parameters, EmptyDict),
     result |-> SerializeJsonField(d.result, EmptyDict),
     error |-> d.error,
     name |-> d.name, priority |-> d.priority, description |-> d.description,
     created_by |-> d.created_by,
     is_recurring |-> 0,
     recurrence_pattern |-> d.recurrence_pattern,
     tags |-> SerializeJsonField(d.tags, EmptyList)]

\* The row written for a Task (the column list of INSERT / UPDATE).
RowOf(t) ==
    LET d == to_dict(t) IN
    [type |-> d.type, category |-> d.category, status |-> d.status,
     updated_at |-> d.updated_at, completed_at |-> d.completed_at,
     parameters |-> SerializeJsonField(d.parameters, EmptyDict),
     result |-> SerializeJsonField(d.result, EmptyDict),
     error |-> d.error,
     name |-> d.name, priority |-> d.priority, description |-> d.description,
     created_by |-> d.created_by,
     is_recurring |-> IF ScalarTruthy(d.is_recurring) THEN 1 ELSE 0,
     recurrence_pattern |-> d.recurrence_pattern,
     tags |-> SerializeJsonField(d.tags, EmptyList)]

\* dict(row) with the JSON columns replaced by what the read loop made of them.
RowDict(task_id, row, parameters, result_, tags) ==
    [id |-> Some(task_id), type |-> row.type, category |-> row.category,
     status |-> row.status, updated_at |-> row.updated_at,
     completed_at |-> row.completed_at,
     parameters |-> parameters,
     result |-> result_,
     error |-> row.error,
     name |-> row.name, priority |-> row.priority, description |-> row.description,
     created_by |-> row.created_by, is_recurring |-> PyInt(row.is_recurring),
     recurrence_pattern |-> row.recurrence_pattern,
     tags |-> tags]

\* get_task_by_id: None when no row has the id, else the row as a Task; the
\* JSON columns are read with the tolerant loop.
get_task_by_id(store, task_id) ==
    IF task_id \notin DOMAIN store THEN None
    ELSE LET row == store[task_id] IN
         Some(from_dict(RowDict(task_id, row,
                                LoadJsonField(row.parameters, EmptyDict),
                                LoadJsonField(row.result, EmptyDict),
                                LoadJsonField(row.tags, EmptyList))))

\* The UPDATE ... WHERE id = ? of update_task: rows without the id are untouched.
UpdateRow(store, t) ==
    IF Value(t.id) \in DOMAIN store
    THEN [store EXCEPT ![Value(t.id)] = RowOf(t)]
    ELSE store

\* The DELETE of delete_task.
DeleteRow(store, task_id) == [i \in DOMAIN store \ {task_id} |-> store[i]]

\* ------------------------------------------------------- requests
AllIdle == \A r \in Requests : pc[r] = "idle"

NoTask == NewTask("", "", EmptyDict)
NoResponse == [code |-> 0, status |-> "", message |-> "", task |-> None]
\* task_id: the id asked for; before: the row as loaded; invoked: a service
\* method was entered; updates: how each update_task call of this run ended
\* ("ok", "norow": no row had the id, "raised"); outcome: what the service
\* returned (or the default envelope), None when nothing was returned.
NoTrace == [task_id |-> 0, before |-> None, invoked |-> FALSE,
            updates |-> <<>>, outcome |-> None]

\* No call outside run_task has been made yet.
NoCall == [op |-> "none"]

\* What a caller may ask to create: (category, type, parameters).
TaskInputs ==
    { <<"email", "send_email", Dict([recipient |-> PyStr("a@b.cz")])>>,
      <<"email", "send_email", Dict([recipient |-> PyStr("a@b.cz"), body |-> PyInt(5)])>>,
      <<"email", "check_inbox", EmptyDict>>,
      <<"pdf", "merge_pdfs", List(<<PyStr("a.pdf")>>)>>,
      <<"email", "archive", EmptyDict>>,
      <<"report", "send_email", Dict([recipient |-> PyStr("a@b.cz")])>> }

Init ==
    /\ tasks = <<>>
    /\ lastrowid = 0
    /\ now = 0
    /\ pc = [r \in Requests |-> "idle"]
    /\ task = [r \in Requests |-> NoTask]
    /\ result = [r \in Requests |-> None]
    /\ exc = [r \in Requests |-> None]
    /\ response = [r \in Requests |-> NoResponse]
    /\ trace = [r \in Requests |-> NoTrace]
    /\ lastOutcome = [i \in TaskIds |-> None]
    /\ projects = <<>>
    /\ files = {}
    /\ service_available = None
    /\ call = NoCall
    /\ documents = <<>>
    /\ assigned = {}
    /\ local_project = [r \in Requests |-> None]

\* api_create_task: a Task with status 'pending' is inserted under the next id.
api_create_task(input) ==
    /\ lastrowid < MaxTasks
    /\ LET t == [NewTask(input[1], input[2], input[3]) EXCEPT
                    !.created_by = Some(1), !.recurrence_pattern = Some("")] IN
       /\ tasks' = ((lastrowid + 1) :> RowOf(t)) @@ tasks
       /\ lastrowid' = lastrowid + 1
    /\ UNCHANGED <<now, pc, task, result, exc, response, trace, lastOutcome>>
    /\ UNCHANGED <<projects, files, service_available, call,
                   documents, assigned, local_project>>

\* delete_task (DELETE /tasks/<id>).
delete_task(task_id) ==
    /\ task_id \in DOMAIN tasks
    /\ tasks' = DeleteRow(tasks, task_id)
    /\ UNCHANGED <<lastrowid, now, pc, task, result, exc, response, trace, lastOutcome>>
    /\ UNCHANGED <<projects, files, service_available, call,
                   documents, assigned, local_project>>

\* ------------------------------------------------------- update_task
DbErrorText == "database is locked"
IdRequiredText == "Task ID is required for update operation"

\* Mutant of update_task: updated_at is stamped before the id is looked at.
update_task_StampFirst(store, t, clock, ok) ==
    LET t1 == [t EXCEPT !.updated_at = Some(clock)] IN
    IF t.id = None
    THEN [task |-> t1, store |-> store, raised |-> Some(IdRequiredText), returned |-> None]
    ELSE IF ok
         THEN [task |-> t1, store |-> UpdateRow(store, t1), raised |-> None,
               returned |-> get_task_by_id(UpdateRow(store, t1), Value(t1.id))]
         ELSE [task |-> t1, store |-> store, raised |-> Some(DbErrorText),
               returned |-> None]

\* Mutant of update_task: a row that is completed or failed is not written again.
update_task_FirstWins(store, t, clock, ok) ==
    IF t.id = None
    THEN [task |-> t, store |-> store, raised |-> Some(IdRequiredText), returned |-> None]
    ELSE LET t1 == [t EXCEPT !.updated_at = Some(clock)]
             kept == Value(t.id) \in DOMAIN store
                         /\ store[Value(t.id)].status \in {"completed", "failed"}
             written == IF kept THEN store ELSE UpdateRow(store, t1) IN
         IF ok
         THEN [task |-> t1, store |-> written, raised |-> None,
               returned |-> get_task_by_id(written, Value(t1.id))]
         ELSE [task |-> t1, store |-> store, raised |-> Some(DbErrorText),
               returned |-> None]

\* update_task(task) at clock reading `clock`; `ok` is whether the store accepts
\* the write.  Yields the Task object as the call leaves it, the store, the
\* exception raised (None if none) and the Task read back and returned.
update_task(store, t, clock, ok) ==
    IF t.id = None
    THEN [task |-> t, store |-> store, raised |-> Some(IdRequiredText), returned |-> None]
    ELSE LET t1 == [t EXCEPT !.updated_at = Some(clock)] IN
         IF ok
         THEN [task |-> t1, store |-> UpdateRow(store, t1), raised |-> None,
               returned |-> get_task_by_id(UpdateRow(store, t1), Value(t1.id))]
         ELSE [task |-> t1, store |-> store, raised |-> Some(DbErrorText),
               returned |-> None]

\* How an update_task call ended, for the history.
UpdateEnd(u) ==
    IF u.raised # None THEN "raised" ELSE IF u.returned = None THEN "norow" ELSE "ok"

\* ------------------------------------------------------- services
\* The outcome envelope every service but check_inbox returns.
Envelope(status, message, clock) ==
    Dict([status |-> status, message |-> message, timestamp |-> isoformat(clock)])

Return(v) == [kind |-> "return", value |-> v, text |-> ""]
Raise(text) == [kind |-> "raise", value |-> EmptyDict, text |-> text]

SmtpErrorText == "[Errno 111] Connection refused"
IoErrorText == "[Errno 2] No such file or directory"
EncodeErrorText == "'int' object has no attribute 'encode'"
ListGetErrorText == "'list' object has no attribute 'get'"
NoneToDictErrorText == "'NoneType' object has no attribute 'to_dict'"

\* EmailService.send_email: the message is built outside the try (a body that
\* is no string raises there); the SMTP exchange ends in a success or an error
\* envelope, as the mail server decides.
send_email(recipient, body, clock) ==
    IF body.t # "str"
    THEN {Raise(EncodeErrorText)}
    ELSE {Return(Envelope("success", "Email odeslan na " \o recipient.v, clock)),
          Return(Envelope("error", SmtpErrorText, clock))}

\* Mutant of check_inbox: the summaries are reported in an envelope.
check_inbox_Envelope(clock) ==
    {Return(Envelope("success", "Nacteno 1 zprav", clock)),
     Return(Envelope("error", SmtpErrorText, clock))}

\* EmailService.check_inbox: always a list; the message summaries, or, when the
\* IMAP exchange fails, the summaries so far plus an error entry.
check_inbox(clock) ==
    {Return(EmptyList),
     Return(List(<<[id |-> "1", subject |-> "Hello", body |-> "..."]>>)),
     Return(List(<<Envelope("error", SmtpErrorText, clock).val>>))}

\* The file and PDF services: the whole body is inside try/except, so the call
\* ends in a success or an error envelope, as the file system decides.
file_or_pdf_service(type, clock) ==
    {Return(Envelope("success", type \o ": ok", clock)),
     Return(Envelope("error", IoErrorText, clock))}

\* ------------------------------------------------------- run_task, lines 100-186
\* `task.parameters.get(key, default) if task.parameters else default`
ParamGet(parameters, key, default) ==
    IF Truthy(parameters) /\ key \in DOMAIN parameters.val
    THEN parameters.val[key] ELSE default

\* A truthy parameters value that is no dict has no .get: AttributeError.
ParamsRaise(parameters) == Truthy(parameters) /\ parameters.shape # "dict"

FileTypes == {"convert_excel_to_csv", "rename_files", "organize_files"}
PdfTypes == {"merge_pdfs", "extract_text", "create_pdf"}

\* Mutant of HandlerFor: the email branch does not look at the type.
HandlerFor_AnyEmailType(category, type) ==
    IF category = "email" THEN Some("send_email")
    ELSE IF category = "file" /\ type \in FileTypes THEN Some(type)
    ELSE IF category = "pdf" /\ type \in PdfTypes THEN Some(type)
    ELSE None

\* The handler the (category, type) pair selects, None when no branch matches.
HandlerFor(category, type) ==
    IF category = "email" /\ type \in {"send_email", "check_inbox"} THEN Some(type)
    ELSE IF category = "file" /\ type \in FileTypes THEN Some(type)
    ELSE IF category = "pdf" /\ type \in PdfTypes THEN Some(type)
    ELSE None

\* The dispatch of run_task: the possible outcomes of lines 100-186 for Task t.
\* invoked: whether a service method was entered.
Dispatch(t, clock) ==
    LET h == HandlerFor(t.category, t.type) IN
    IF h = None
    THEN {[invoked |-> FALSE, out |-> [kind |-> "none", value |-> EmptyDict, text |-> ""]]}
    ELSE IF ParamsRaise(t.parameters)
    THEN {[invoked |-> FALSE, out |-> Raise(ListGetErrorText)]}
    ELSE LET outs ==
               IF Value(h) = "send_email"
               THEN send_email(ParamGet(t.parameters, "recipient", PyStr("")),
                               ParamGet(t.parameters, "body", PyStr("")), clock)
               ELSE IF Value(h) = "check_inbox" THEN check_inbox(clock)
               ELSE file_or_pdf_service(Value(h), clock)
         IN {[invoked |-> TRUE, out |-> o] : o \in outs}

\* ------------------------------------------------------- run_task, lines 188-196
DefaultEnvelope ==
    Dict([status |-> "success",
          message |-> "Uloha byla dokoncena, ale nevratila zadny vysledek."])

\* `if result is None: result = {...}`
ResultOrDefault(res) == IF res = None THEN DefaultEnvelope ELSE Value(res)

\* result.get(...) raises on anything that is no dict.
MapRaises(res) == res.shape # "dict"

\* Mutant of MapOutcome: the error of an earlier run survives a success.
MapOutcome_KeepsError(t, res, clock) ==
    [t EXCEPT
        !.status = IF DictGet(res, "status") = Some("success") THEN "completed" ELSE "failed",
        !.result = res,
        !.completed_at = Some(clock),
        !.error = IF DictGet(res, "status") = Some("error") THEN DictGet(res, "message") ELSE @]

\* Mutant of MapOutcome: an error envelope's message is not copied to error.
MapOutcome_NoError(t, res, clock) ==
    [t EXCEPT
        !.status = IF DictGet(res, "status") = Some("success") THEN "completed" ELSE "failed",
        !.result = res,
        !.completed_at = Some(clock),
        !.error = None]

\* Lines 193-196: the handler's envelope mapped onto the Task.
MapOutcome(t, res, clock) ==
    [t EXCEPT
        !.status = IF DictGet(res, "status") = Some("success") THEN "completed" ELSE "failed",
        !.result = res,
        !.completed_at = Some(clock),
        !.error = IF DictGet(res, "status") = Some("error") THEN DictGet(res, "message") ELSE None]

\* Mutant of MarkFailed: a failed task is put back in the queue.
MarkFailed_Requeue(t, e, clock) ==
    [t EXCEPT !.status = "pending", !.error = Some(e), !.completed_at = Some(clock)]

\* Mutant of MarkFailed: the except branch does not record the exception.
MarkFailed_NoError(t, e, clock) ==
    [t EXCEPT !.status = "failed", !.completed_at = Some(clock)]

\* Mutant of MarkFailed: the except branch forgets completed_at.
MarkFailed_NoCompletedAt(t, e, clock) ==
    [t EXCEPT !.status = "failed", !.error = Some(e)]

\* Lines 205-207: the Task as the except branch marks it.
MarkFailed(t, e, clock) ==
    [t EXCEPT !.status = "failed", !.error = Some(e), !.completed_at = Some(clock)]

\* ------------------------------------------------------- run_task, as steps
NotFoundResponse ==
    [code |-> 404, status |-> "error", message |-> "Uloha nebyla nalezena", task |-> None]
UpdateErrorResponse(text) ==
    [code |-> 500, status |-> "error",
     message |-> "Chyba pri aktualizaci ulohy: " \o text, task |-> None]
SuccessResponse(t) ==
    [code |-> 200, status |-> "success", message |-> "", task |-> Some(to_dict(t))]
ErrorResponse(e) ==
    [code |-> 500, status |-> "error", message |-> e, task |-> None]
\* Mutant of BothErrorsResponse: the persistence failure is dropped.
BothErrorsResponse_OnlyFirst(e, update_error) ==
    [code |-> 500, status |-> "error", message |-> e, task |-> None]

BothErrorsResponse(e, update_error) ==
    [code |-> 500, status |-> "error",
     message |-> "Chyba pri provadeni ulohy: " \o e
                 \o ". Chyba pri aktualizaci ulohy: " \o update_error,
     task |-> None]

\* Mutant of AfterMarkRunning: a failed running-write is ignored.
AfterMarkRunning_Continue(raised) == "try"

\* Lines 94-99: where run_task goes once the running-write has been attempted.
AfterMarkRunning(raised) == IF raised # None THEN "done" ELSE "try"

\* Mutant of run_task_load: a task that is not pending is not run again.
run_task_load_OnlyPending(r, task_id) ==
    /\ pc[r] = "idle"
    /\ now < MaxClock
    /\ now' = now + 1
    /\ LET found == get_task_by_id(tasks, task_id) IN
       IF found = None \/ Value(found).status # "pending"
       THEN /\ pc' = [pc EXCEPT ![r] = "done"]
            /\ response' = [response EXCEPT ![r] = NotFoundResponse]
            /\ trace' = [trace EXCEPT ![r] =
                    [NoTrace EXCEPT !.task_id = task_id,
                                    !.before = IF found = None THEN None
                                               ELSE Some(tasks[task_id])]]
            /\ UNCHANGED task
       ELSE /\ pc' = [pc EXCEPT ![r] = "loaded"]
            /\ task' = [task EXCEPT ![r] = Value(found)]
            /\ trace' = [trace EXCEPT ![r] =
                    [NoTrace EXCEPT !.task_id = task_id, !.before = Some(tasks[task_id])]]
            /\ UNCHANGED response
    /\ UNCHANGED <<tasks, lastrowid, result, exc, lastOutcome>>
    /\ UNCHANGED <<projects, files, service_available, call,
                   documents, assigned, local_project>>

\* Lines 88-90: load the Task, 404 when absent.
run_task_load(r, task_id) ==
    /\ pc[r] = "idle"
    /\ now < MaxClock
    /\ now' = now + 1
    /\ LET found == get_task_by_id(tasks, task_id) IN
       IF found = None
       THEN /\ pc' = [pc EXCEPT ![r] = "done"]
            /\ response' = [response EXCEPT ![r] = NotFoundResponse]
            /\ trace' = [trace EXCEPT ![r] = [NoTrace EXCEPT !.task_id = task_id]]
            /\ UNCHANGED task
       ELSE /\ pc' = [pc EXCEPT ![r] = "loaded"]
            /\ task' = [task EXCEPT ![r] = Value(found)]
            /\ trace' = [trace EXCEPT ![r] =
                    [NoTrace EXCEPT !.task_id = task_id, !.before = Some(tasks[task_id])]]
            /\ UNCHANGED response
    /\ UNCHANGED <<tasks, lastrowid, result, exc, lastOutcome>>
    /\ UNCHANGED <<projects, files, service_available, call,
                   documents, assigned, local_project>>

\* Lines 92-97: status = 'running', persisted; a failed write ends the call.
run_task_mark_running(r) ==
    /\ pc[r] = "loaded"
    /\ \E ok \in BOOLEAN :
         LET u == update_task(tasks, [task[r] EXCEPT !.status = "running"], now, ok) IN
         /\ task' = [task EXCEPT ![r] = u.task]
         /\ tasks' = u.store
         /\ trace' = [trace EXCEPT ![r].updates = Append(@, UpdateEnd(u))]
         /\ pc' = [pc EXCEPT ![r] = AfterMarkRunning(u.raised)]
         /\ response' = [response EXCEPT ![r] =
                IF AfterMarkRunning(u.raised) = "done"
                THEN UpdateErrorResponse(Value(u.raised)) ELSE @]
    /\ UNCHANGED <<lastrowid, now, result, exc, lastOutcome>>
    /\ UNCHANGED <<projects, files, service_available, call,
                   documents, assigned, local_project>>

\* Lines 99-186: the branch for (category, type) runs its service.
run_task_dispatch(r) ==
    /\ pc[r] = "try"
    /\ \E d \in Dispatch(task[r], now) :
         /\ trace' = [trace EXCEPT ![r].invoked = d.invoked,
                                   ![r].outcome = IF d.out.kind = "return"
                                                  THEN Some(d.out.value) ELSE None]
         /\ IF d.out.kind = "raise"
            THEN /\ exc' = [exc EXCEPT ![r] = Some(d.out.text)]
                 /\ pc' = [pc EXCEPT ![r] = "except"]
                 /\ UNCHANGED result
            ELSE /\ result' = [result EXCEPT ![r] =
                        IF d.out.kind = "return" THEN Some(d.out.value) ELSE None]
                 /\ pc' = [pc EXCEPT ![r] = "handled"]
                 /\ UNCHANGED exc
    /\ UNCHANGED <<tasks, lastrowid, now, task, response, lastOutcome>>
    /\ UNCHANGED <<projects, files, service_available, call,
                   documents, assigned, local_project>>

\* Lines 188-201: default envelope, outcome mapped onto the Task, persisted,
\* success response; anything raised on the way goes to the except branch.
run_task_persist(r) ==
    /\ pc[r] = "handled"
    /\ LET res == ResultOrDefault(result[r]) IN
       /\ result' = [result EXCEPT ![r] = Some(res)]
       /\ IF MapRaises(res)
          THEN /\ exc' = [exc EXCEPT ![r] = Some(ListGetErrorText)]
               /\ pc' = [pc EXCEPT ![r] = "except"]
               /\ trace' = [trace EXCEPT ![r].outcome = Some(res)]
               /\ UNCHANGED <<tasks, task, response, lastOutcome,
                              documents, assigned, local_project>>
          ELSE \E ok \in BOOLEAN :
               LET u == update_task(tasks, MapOutcome(task[r], res, now), now, ok) IN
               /\ task' = [task EXCEPT ![r] = u.task]
               /\ tasks' = u.store
               /\ trace' = [trace EXCEPT ![r].updates = Append(@, UpdateEnd(u)),
                                         ![r].outcome = Some(res)]
               /\ IF u.raised # None
                  THEN /\ exc' = [exc EXCEPT ![r] = u.raised]
                       /\ pc' = [pc EXCEPT ![r] = "except"]
                       /\ UNCHANGED <<response, lastOutcome,
                                      documents, assigned, local_project>>
                  ELSE IF u.returned = None
                  THEN /\ exc' = [exc EXCEPT ![r] = Some(NoneToDictErrorText)]
                       /\ pc' = [pc EXCEPT ![r] = "except"]
                       /\ UNCHANGED <<response, lastOutcome,
                                      documents, assigned, local_project>>
                  ELSE /\ response' = [response EXCEPT ![r] = SuccessResponse(Value(u.returned))]
                       /\ pc' = [pc EXCEPT ![r] = "done"]
                       /\ lastOutcome' = [lastOutcome EXCEPT ![trace[r].task_id] = Some(res)]
                       /\ UNCHANGED exc
    /\ UNCHANGED <<lastrowid, now>>
    /\ UNCHANGED <<projects, files, service_available, call,
                   documents, assigned, local_project>>

\* Lines 203-218: status = 'failed', error = str(e), persisted; error response,
\* carrying both failures when this write fails too.
run_task_except(r) ==
    /\ pc[r] = "except"
    /\ \E ok \in BOOLEAN :
         LET e == Value(exc[r])
             u == update_task(tasks, MarkFailed(task[r], e, now), now, ok) IN
         /\ task' = [task EXCEPT ![r] = u.task]
         /\ tasks' = u.store
         /\ trace' = [trace EXCEPT ![r].updates = Append(@, UpdateEnd(u))]
         /\ response' = [response EXCEPT ![r] =
                IF u.raised # None THEN BothErrorsResponse(e, Value(u.raised))
                ELSE ErrorResponse(e)]
         /\ lastOutcome' = IF u.raised = None /\ u.returned # None
                           THEN [lastOutcome EXCEPT ![trace[r].task_id] = trace[r].outcome]
                           ELSE lastOutcome
    /\ pc' = [pc EXCEPT ![r] = "done"]
    /\ UNCHANGED <<lastrowid, now, result, exc>>
    /\ UNCHANGED <<projects, files, service_available, call,
                   documents, assigned, local_project>>

\* The response has been delivered; the request's locals are gone.
run_task_return(r) ==
    /\ pc[r] = "done"
    /\ pc' = [pc EXCEPT ![r] = "idle"]
    /\ task' = [task EXCEPT ![r] = NoTask]
    /\ result' = [result EXCEPT ![r] = None]
    /\ exc' = [exc EXCEPT ![r] = None]
    /\ response' = [response EXCEPT ![r] = NoResponse]
    /\ trace' = [trace EXCEPT ![r] = NoTrace]
    /\ UNCHANGED <<tasks, lastrowid, now, lastOutcome>>
    /\ UNCHANGED <<projects, files, service_available, call,
                   documents, assigned, local_project>>

\* ------------------------------------------------------- specifications
\* One worker serves run_task: runs never overlap each other.
Worker == CHOOSE r \in Requests : TRUE

\* A run in flight races with creations and deletions by other requests.
Next ==
    \/ \E input \in TaskInputs : api_create_task(input)
    \/ \E task_id \in TaskIds : delete_task(task_id)
    \/ \E task_id \in TaskIds : run_task_load(Worker, task_id)
    \/ run_task_mark_running(Worker)
    \/ run_task_dispatch(Worker)
    \/ run_task_persist(Worker)
    \/ run_task_except(Worker)
    \/ run_task_return(Worker)

Spec == Init /\ [][Next]_vars

\* Non-overlapping requests: a request starts only when none is in flight.
SeqCreate == AllIdle /\ \E input \in TaskInputs : api_create_task(input)
SeqDelete == AllIdle /\ \E task_id \in TaskIds : delete_task(task_id)

NextSeq ==
    \/ SeqCreate
    \/ SeqDelete
    \/ \E task_id \in TaskIds : run_task_load(Worker, task_id)
    \/ run_task_mark_running(Worker)
    \/ run_task_dispatch(Worker)
    \/ run_task_persist(Worker)
    \/ run_task_except(Worker)
    \/ run_task_return(Worker)

SpecSeq == Init /\ [][NextSeq]_vars

\* ======================================================= properties
Terminal == {"completed", "failed"}

\* The eight (category, type) pairs the dispatcher serves.
HandledPairs ==
    { <<"email", "send_email">>, <<"email", "check_inbox">>,
      <<"file", "convert_excel_to_csv">>, <<"file", "rename_files">>,
      <<"file", "organize_files">>,
      <<"pdf", "merge_pdfs">>, <<"pdf", "extract_text">>, <<"pdf", "create_pdf">> }

\* Request r has returned from run_task for a task that existed when loaded.
Returned(r) == pc[r] = "done" /\ trace[r].before # None
LastUpdate(r) == trace[r].updates[Len(trace[r].updates)]
StoredRow(r) == tasks[trace[r].task_id]

\* C1 (as stated): whenever run_task returns for an existing task, with a
\* success or an error response, the stored status is completed or failed and
\* the stored completed_at is set.
C1_AlwaysTerminal ==
    \A r \in Requests :
        Returned(r) =>
            /\ trace[r].task_id \in DOMAIN tasks
            /\ StoredRow(r).status \in Terminal
            /\ StoredRow(r).completed_at # None

\* C1 (amended): whenever run_task returns for an existing task and its last
\* update_task call did not raise, the stored status is completed or failed and
\* the stored completed_at is set.
C1_TerminalWhenPersisted ==
    \A r \in Requests :
        (Returned(r) /\ LastUpdate(r) # "raised") =>
            /\ trace[r].task_id \in DOMAIN tasks
            /\ StoredRow(r).status \in Terminal
            /\ StoredRow(r).completed_at # None

\* C1 witness: an error response after the except branch persisted 'failed'.
C1_Witness ==
    \E r \in Requests :
        /\ Returned(r) /\ LastUpdate(r) = "ok"
        /\ response[r].status = "error"
        /\ StoredRow(r).status = "failed"
        /\ Value(trace[r].before).completed_at = None

\* C2: a task whose (category, type) is none of the eight handled pairs never
\* enters a service, and when its writes go through the stored row is
\* completed, with the default success envelope as result and no error.
C2_UnhandledPairCompletes ==
    \A r \in Requests :
        (trace[r].before # None
         /\ <<Value(trace[r].before).category, Value(trace[r].before).type>> \notin HandledPairs) =>
            /\ ~trace[r].invoked
            /\ (pc[r] = "done" /\ trace[r].updates = <<"ok", "ok">>) =>
                 /\ response[r].status = "success"
                 /\ StoredRow(r).status = "completed"
                 /\ json_loads(StoredRow(r).result) =
                        Dict([status |-> "success",
                              message |-> "Uloha byla dokoncena, ale nevratila zadny vysledek."])
                 /\ StoredRow(r).error = None

\* C2 witness: a known category with an unknown type has been run to completion.
C2_Witness ==
    \E r \in Requests :
        /\ Returned(r)
        /\ Value(trace[r].before).category = "email"
        /\ Value(trace[r].before).type = "archive"
        /\ response[r].status = "success"
        /\ StoredRow(r).status = "completed"

\* C3: when the service returned an envelope and the writes go through, the
\* stored status is completed iff the envelope's status is "success" (failed
\* otherwise), the stored result is the envelope, the stored error is the
\* envelope's message iff its status is "error" (else null), and completed_at
\* is set.
C3_EnvelopeMapped ==
    \A r \in Requests :
        (pc[r] = "done" /\ trace[r].invoked /\ trace[r].outcome # None
         /\ Value(trace[r].outcome).shape = "dict"
         /\ trace[r].updates = <<"ok", "ok">>) =>
            LET env == Value(trace[r].outcome).val
                row == StoredRow(r) IN
            /\ (row.status = "completed") <=> (env.status = "success")
            /\ row.status \in Terminal
            /\ json_loads(row.result) = Value(trace[r].outcome)
            /\ row.error = IF env.status = "error" THEN Some(env.message) ELSE None
            /\ row.completed_at = Some(isoformat(now))
            /\ response[r].status = "success"

\* C3 witness: an error envelope was mapped to failed with its message as error.
C3_Witness ==
    \E r \in Requests :
        /\ pc[r] = "done" /\ trace[r].invoked /\ trace[r].updates = <<"ok", "ok">>
        /\ trace[r].outcome # None
        /\ Value(trace[r].outcome).shape = "dict"
        /\ Value(trace[r].outcome).val.status = "error"
        /\ StoredRow(r).status = "failed"
        /\ StoredRow(r).error = Some(SmtpErrorText)

\* C4: when run_task returns through the except branch, the response is an
\* error; if the except branch's write went through, the stored row is failed
\* with error = the exception's text and completed_at set; if that write
\* raised, the response message names both failures.
C4_ExceptBranch ==
    \A r \in Requests :
        (pc[r] = "done" /\ exc[r] # None) =>
            /\ response[r].status = "error"
            /\ response[r].code = 500
            /\ IF LastUpdate(r) = "raised"
               THEN response[r].message =
                        "Chyba pri provadeni ulohy: " \o Value(exc[r])
                        \o ". Chyba pri aktualizaci ulohy: " \o DbErrorText
               ELSE /\ response[r].message = Value(exc[r])
                    /\ StoredRow(r).status = "failed"
                    /\ StoredRow(r).error = exc[r]
                    /\ StoredRow(r).completed_at = Some(isoformat(now))

\* C4 witness: the service raised and the write of the except branch raised too.
C4_Witness ==
    \E r \in Requests :
        /\ pc[r] = "done" /\ exc[r] = Some(EncodeErrorText)
        /\ trace[r].updates = <<"ok", "raised">>
        /\ StoredRow(r).status = "running"

\* C5: if the write of status = 'running' raises, run_task is over at once with
\* an error response: no service is entered, no further update is attempted,
\* and the stored row is the row that was loaded.
C5_RunningWriteFails ==
    \A r \in Requests :
        (trace[r].updates # <<>> /\ trace[r].updates[1] = "raised") =>
            /\ pc[r] = "done"
            /\ trace[r].updates = <<"raised">>
            /\ ~trace[r].invoked
            /\ response[r].status = "error"
            /\ StoredRow(r) = Value(trace[r].before)

\* C5 witness: the running-write raised on a task that had completed before.
C5_Witness ==
    \E r \in Requests :
        /\ pc[r] = "done" /\ trace[r].updates = <<"raised">>
        /\ StoredRow(r).status = "completed"

\* C6 (as stated): a service is entered only after this run's write of
\* status = 'running' has been applied to the task's stored row.
C6_HandlerOnlyAfterRunningPersisted ==
    \A r \in Requests :
        trace[r].invoked => (trace[r].updates # <<>> /\ trace[r].updates[1] = "ok")

\* C7: under non-overlapping requests a new row is pending, and a stored
\* status changes only by run_task: to running in its running-write, or from
\* running to completed or failed in the write that ends that same run.
C7_StatusTransitions ==
    [][\A id \in TaskIds :
        /\ (id \notin DOMAIN tasks /\ id \in DOMAIN tasks') =>
                tasks'[id].status = "pending"
        /\ (id \in DOMAIN tasks /\ id \in DOMAIN tasks'
            /\ tasks'[id].status # tasks[id].status) =>
                \E r \in Requests :
                    /\ trace[r].task_id = id
                    /\ \/ /\ pc[r] = "loaded"
                          /\ tasks'[id].status = "running"
                       \/ /\ pc[r] \in {"handled", "except"} /\ pc'[r] = "done"
                          /\ trace[r].updates[1] = "ok"
                          /\ tasks[id].status = "running"
                          /\ tasks'[id].status \in Terminal
      ]_vars

\* C7 witness: a task that had completed is running again, in its next run.
C7_Witness ==
    \E r \in Requests :
        /\ pc[r] = "try" /\ trace[r].before # None
        /\ Value(trace[r].before).status = "completed"
        /\ StoredRow(r).status = "running"

\* C8: every stored row whose status is failed has a non-null error.
C8_FailedHasError ==
    \A id \in DOMAIN tasks :
        tasks[id].status = "failed" => tasks[id].error # None

\* C8 witness: a row failed by an error envelope, holding its message as error.
C8_Witness ==
    \E id \in DOMAIN tasks :
        /\ tasks[id].status = "failed"
        /\ tasks[id].error = Some(SmtpErrorText)
        /\ json_loads(tasks[id].result).val.status = "error"

\* C9 (as stated): every stored row whose status is completed or failed holds
\* as result what the service returned in the run that set that status.
C9_ResultIsOutcome ==
    \A id \in DOMAIN tasks :
        tasks[id].status \in Terminal =>
            /\ lastOutcome[id] # None
            /\ json_loads(tasks[id].result) = Value(lastOutcome[id])

\* C10: run_task does not look at the status it finds.  Run on a task that is
\* already running, completed or failed, it enters the service again (for a
\* handled pair with usable parameters), and when its writes go through the
\* stored status, result, error and completed_at are those of the new outcome.
C10_RerunOverwrites ==
    \A r \in Requests :
        (trace[r].before # None /\ Value(trace[r].before).status # "pending") =>
            LET old == Value(trace[r].before) IN
            /\ pc[r] = "done" => trace[r].updates # <<>>
            /\ (/\ pc[r] \in {"handled", "except", "done"}
                /\ trace[r].updates # <<>> /\ trace[r].updates[1] = "ok"
                /\ <<old.category, old.type>> \in HandledPairs
                /\ json_loads(old.parameters).shape = "dict") => trace[r].invoked
            /\ (/\ pc[r] = "done" /\ trace[r].updates = <<"ok", "ok">>
                /\ exc[r] = None /\ trace[r].outcome # None
                /\ Value(trace[r].outcome).shape = "dict") =>
                    LET env == Value(trace[r].outcome).val
                        row == StoredRow(r) IN
                    /\ row.status = IF env.status = "success" THEN "completed" ELSE "failed"
                    /\ json_loads(row.result) = Value(trace[r].outcome)
                    /\ row.error = IF env.status = "error" THEN Some(env.message) ELSE None
                    /\ row.completed_at = Some(isoformat(now))

\* C10 witness: a failed task was run again, succeeded, and is completed with
\* no error and a later completed_at.
C10_Witness ==
    \E r \in Requests :
        /\ pc[r] = "done" /\ trace[r].before # None
        /\ Value(trace[r].before).status = "failed"
        /\ Value(trace[r].before).error # None
        /\ trace[r].invoked
        /\ StoredRow(r).status = "completed"
        /\ StoredRow(r).error = None
        /\ StoredRow(r).completed_at # Value(trace[r].before).completed_at

\* ------------------------------------------------------- Python lists
\* `x in l`
ListHas(l, x) == \E k \in DOMAIN l.val : l.val[k] = x
\* `l.append(x)`
ListAppend(l, x) == List(Append(l.val, x))
\* `l.remove(x)`: the first occurrence goes (the caller has checked `x in l`).
ListRemove(l, x) ==
    LET k == CHOOSE i \in DOMAIN l.val :
                 l.val[i] = x /\ \A j \in 1..(i - 1) : l.val[j] # x
    IN List(SubSeq(l.val, 1, k - 1) \o SubSeq(l.val, k + 1, Len(l.val)))
\* How many times x occurs in l.
ListCount(l, x) == Cardinality({k \in DOMAIN l.val : l.val[k] = x})

\* ------------------------------------------------------- models/project_model.py
\* Project(name=...) with the dataclass defaults: no id, empty id lists.
NewProject(name) ==
    [id |-> None, name |-> name, updated_at |-> None,
     tasks |-> EmptyList, documents |-> EmptyList]

\* Project.to_dict
project_to_dict(p) ==
    [id |-> p.id, name |-> p.name,
     updated_at |-> IF p.updated_at # None THEN Some(isoformat(Value(p.updated_at))) ELSE None,
     tasks |-> p.tasks, documents |-> p.documents]

\* Project.from_dict
project_from_dict(d) ==
    [d EXCEPT
        !.updated_at = IF d.updated_at # None THEN fromisoformat(Value(d.updated_at)) ELSE None]

\* ------------------------------------------------------- contexts/project_context.py
\* The row written for a Project: a falsy id list is stored as '[]'.
ProjectRowOf(p) ==
    LET d == project_to_dict(p) IN
    [name |-> d.name, updated_at |-> d.updated_at,
     tasks |-> SerializeJsonField(d.tasks, EmptyList),
     documents |-> SerializeJsonField(d.documents, EmptyList)]

\* get_project_by_id: None when no row has the id, else the row as a Project.
get_project_by_id(store, project_id) ==
    IF project_id \notin DOMAIN store THEN None
    ELSE LET row == store[project_id] IN
         Some(project_from_dict(
            [id |-> Some(project_id), name |-> row.name,
             updated_at |-> row.updated_at,
             tasks |-> LoadJsonField(row.tasks, EmptyList),
             documents |-> LoadJsonField(row.documents, EmptyList)]))

\* update_project(project) at clock reading `clock`; `ok` is whether the store
\* accepts the write.  Yields the store and the exception raised (None if none).
update_project(store, p, clock, ok) ==
    IF p.id = None
    THEN [store |-> store, raised |-> Some("Project ID is required for update operation")]
    ELSE LET p1 == [p EXCEPT !.updated_at = Some(clock)] IN
         IF ok
         THEN [store |-> IF Value(p1.id) \in DOMAIN store
                         THEN [store EXCEPT ![Value(p1.id)] = ProjectRowOf(p1)]
                         ELSE store,
               raised |-> None]
         ELSE [store |-> store, raised |-> Some(DbErrorText)]

\* What a membership call yields: the store, the value returned (None when the
\* call raised instead) and the exception raised.
Returns(store, value) == [store |-> store, returned |-> Some(value), raised |-> None]
AfterUpdate(u) ==
    [store |-> u.store,
     returned |-> IF u.raised = None THEN Some(TRUE) ELSE None,
     raised |-> u.raised]

\* Mutant of AddMember: the id is appended without looking for it first.
AddMember_NoCheck(store, project_id, field, member, clock, ok) ==
    LET project == get_project_by_id(store, project_id) IN
    IF project = None THEN Returns(store, FALSE)
    ELSE AfterUpdate(update_project(store,
            [Value(project) EXCEPT ![field] = ListAppend(@, member)], clock, ok))

\* Mutant of AddMember: a repeated add rewrites the row and reports false.
AddMember_TouchOnRepeat(store, project_id, field, member, clock, ok) ==
    LET project == get_project_by_id(store, project_id) IN
    IF project = None THEN Returns(store, FALSE)
    ELSE IF ~ListHas(Value(project)[field], member)
    THEN AfterUpdate(update_project(store,
            [Value(project) EXCEPT ![field] = ListAppend(@, member)], clock, ok))
    ELSE Returns(update_project(store, Value(project), clock, TRUE).store, FALSE)

\* Mutant of AddMember: a task id is accepted only if the task store has it.
AddMember_ChecksTaskStore(store, project_id, field, member, clock, ok) ==
    LET project == get_project_by_id(store, project_id) IN
    IF project = None THEN Returns(store, FALSE)
    ELSE IF field = "tasks" /\ member \notin DOMAIN tasks THEN Returns(store, FALSE)
    ELSE IF ~ListHas(Value(project)[field], member)
    THEN AfterUpdate(update_project(store,
            [Value(project) EXCEPT ![field] = ListAppend(@, member)], clock, ok))
    ELSE Returns(store, FALSE)

\* add_task_to_project / add_document_to_project: the body, on the id list
\* `field` ("tasks" or "documents").
AddMember(store, project_id, field, member, clock, ok) ==
    LET project == get_project_by_id(store, project_id) IN
    IF project = None THEN Returns(store, FALSE)
    ELSE IF ~ListHas(Value(project)[field], member)
    THEN AfterUpdate(update_project(store,
            [Value(project) EXCEPT ![field] = ListAppend(@, member)], clock, ok))
    ELSE Returns(store, FALSE)

\* remove_task_from_project / remove_document_from_project: the body.
RemoveMember(store, project_id, field, member, clock, ok) ==
    LET project == get_project_by_id(store, project_id) IN
    IF project = None THEN Returns(store, FALSE)
    ELSE IF ListHas(Value(project)[field], member)
    THEN AfterUpdate(update_project(store,
            [Value(project) EXCEPT ![field] = ListRemove(@, member)], clock, ok))
    ELSE Returns(store, FALSE)

\* get_project_tasks: [] for an absent project, else the stored id list.
get_project_tasks(store, project_id) ==
    LET project == get_project_by_id(store, project_id) IN
    IF project = None THEN EmptyList ELSE Value(project).tasks

\* ------------------------------------------------------- project requests
MaxDocs == 1                     \* document ids a caller may name
DocIds == 1..MaxDocs
\* One project is followed (a membership call touches only the row its
\* project_id names): id 1 is the project, id 2 is never assigned.
ProjectIds == {1, 2}

\* The history entry of a membership call.
MemberCall(op, project_id, member, r) ==
    [op |-> op, project_id |-> project_id, member |-> member,
     returned |-> r.returned, raised |-> r.raised]

\* create_project with the lists left at their defaults; the first row of
\* the table gets id 1.
create_project ==
    /\ DOMAIN projects = {}
    /\ projects' = (1 :> ProjectRowOf(NewProject("p")))
    /\ call' = [op |-> "create_project"]
    /\ UNCHANGED <<tasks, lastrowid, now, pc, task, result, exc, response, trace,
                   lastOutcome, files, service_available, documents, assigned, local_project>>

add_task_to_project(project_id, task_id, ok) ==
    /\ LET r == AddMember(projects, project_id, "tasks", task_id, now, ok) IN
       /\ projects' = r.store
       /\ call' = MemberCall("add_task", project_id, task_id, r)
    /\ UNCHANGED <<tasks, lastrowid, now, pc, task, result, exc, response, trace,
                   lastOutcome, files, service_available, documents, assigned, local_project>>

remove_task_from_project(project_id, task_id, ok) ==
    /\ LET r == RemoveMember(projects, project_id, "tasks", task_id, now, ok) IN
       /\ projects' = r.store
       /\ call' = MemberCall("remove_task", project_id, task_id, r)
    /\ UNCHANGED <<tasks, lastrowid, now, pc, task, result, exc, response, trace,
                   lastOutcome, files, service_available, documents, assigned, local_project>>

add_document_to_project(project_id, document_id, ok) ==
    /\ LET r == AddMember(projects, project_id, "documents", document_id, now, ok) IN
       /\ projects' = r.store
       /\ call' = MemberCall("add_document", project_id, document_id, r)
    /\ UNCHANGED <<tasks, lastrowid, now, pc, task, result, exc, response, trace,
                   lastOutcome, files, service_available, documents, assigned, local_project>>

remove_document_from_project(project_id, document_id, ok) ==
    /\ LET r == RemoveMember(projects, project_id, "documents", document_id, now, ok) IN
       /\ projects' = r.store
       /\ call' = MemberCall("remove_document", project_id, document_id, r)
    /\ UNCHANGED <<tasks, lastrowid, now, pc, task, result, exc, response, trace,
                   lastOutcome, files, service_available, documents, assigned, local_project>>

\* A caller reads the project's task ids.
read_project_tasks(project_id) ==
    /\ call' = [op |-> "get_project_tasks", project_id |-> project_id,
                returned |-> Some(get_project_tasks(projects, project_id)),
                raised |-> None]
    /\ UNCHANGED <<tasks, lastrowid, now, pc, task, result, exc, response, trace,
                   lastOutcome, projects, files, service_available,
                   documents, assigned, local_project>>

\* Time passes between requests.
tick ==
    /\ now < MaxClock
    /\ now' = now + 1
    /\ UNCHANGED <<tasks, lastrowid, pc, task, result, exc, response, trace,
                   lastOutcome, projects, files, service_available, call,
                   documents, assigned, local_project>>

\* The membership calls on a project, tasks and documents alike.
NextProject ==
    \/ create_project
    \/ \E p \in ProjectIds, t \in TaskIds, ok \in BOOLEAN : add_task_to_project(p, t, ok)
    \/ \E p \in ProjectIds, t \in TaskIds, ok \in BOOLEAN : remove_task_from_project(p, t, ok)
    \/ \E p \in ProjectIds, d \in DocIds, ok \in BOOLEAN : add_document_to_project(p, d, ok)
    \/ \E p \in ProjectIds, d \in DocIds, ok \in BOOLEAN : remove_document_from_project(p, d, ok)
    \/ tick

SpecProject == Init /\ [][NextProject]_vars

\* The project's task ids with the task repository beside them: tasks are
\* created and deleted while ids are added to and removed from the project.
NextMembership ==
    \/ create_project
    \/ \E p \in ProjectIds, t \in TaskIds, ok \in BOOLEAN : add_task_to_project(p, t, ok)
    \/ \E p \in ProjectIds, t \in TaskIds, ok \in BOOLEAN : remove_task_from_project(p, t, ok)
    \/ \E p \in ProjectIds : read_project_tasks(p)
    \/ api_create_task(<<"email", "check_inbox", EmptyDict>>)
    \/ \E i \in TaskIds : delete_task(i)
    \/ tick

SpecMembership == Init /\ [][NextMembership]_vars

\* ------------------------------------------------------- project properties
\* The project as a reader sees it.
TheProject(p) == Value(get_project_by_id(projects, p))
AddOps == {"add_task", "add_document"}
RemoveOps == {"remove_task", "remove_document"}
\* The id list a membership call works on.
FieldOf(op) == IF op \in {"add_task", "remove_task"} THEN "tasks" ELSE "documents"

\* C11: after any sequence of add_task, remove_task, add_document and
\* remove_document calls on a project created with empty lists, no id occurs
\* more than once in its task-id list or in its document-id list; once an add
\* has returned (true or false) the id it named is in the list exactly once.
C11_NoDuplicateMembers ==
    /\ \A p \in DOMAIN projects :
          /\ \A t \in TaskIds : ListCount(TheProject(p).tasks, t) <= 1
          /\ \A d \in DocIds : ListCount(TheProject(p).documents, d) <= 1
    /\ (call.op \in AddOps /\ call.returned # None /\ call.project_id \in DOMAIN projects)
          => ListCount(TheProject(call.project_id)[FieldOf(call.op)], call.member) = 1

\* The same task id has been added a second time, next to another member.
C11_Witness ==
    /\ call.op = "add_task" /\ call.returned = Some(FALSE)
    /\ call.project_id \in DOMAIN projects
    /\ ListHas(TheProject(call.project_id).tasks, call.member)
    /\ Len(TheProject(call.project_id).tasks.val) = 2
    /\ TheProject(call.project_id).documents # EmptyList

\* Whether member is in the id list `field` of stored project p.
IsMember(p, field, member) ==
    p \in DOMAIN projects /\ ListHas(TheProject(p)[field], member)

\* C12: add_task returns true exactly when the project exists and the id was
\* not yet a member (and the store takes the write), remove_task returns true
\* exactly when the project exists and the id was a member; whenever either
\* returns false the stored project, its updated_at included, is unchanged.
C12_ReturnValueAndFrame ==
    [][call'.op \in {"add_task", "remove_task"} =>
       \A ok \in BOOLEAN :
        LET p == call'.project_id
            t == call'.member IN
        /\ add_task_to_project(p, t, ok) =>
              LET addable == p \in DOMAIN projects /\ ~IsMember(p, "tasks", t) IN
              /\ (addable /\ ok) => call'.returned = Some(TRUE)
              /\ call'.returned = Some(TRUE) => addable
              /\ ~addable => call'.returned = Some(FALSE)
              /\ call'.returned = Some(FALSE) => projects' = projects
        /\ remove_task_from_project(p, t, ok) =>
              LET removable == IsMember(p, "tasks", t) IN
              /\ (removable /\ ok) => call'.returned = Some(TRUE)
              /\ call'.returned = Some(TRUE) => removable
              /\ ~removable => call'.returned = Some(FALSE)
              /\ call'.returned = Some(FALSE) => projects' = projects
      ]_vars

\* An add of a task id that is already a member has returned false, on a
\* project last written at an earlier clock reading.
C12_Witness ==
    /\ call.op = "add_task" /\ call.returned = Some(FALSE)
    /\ IsMember(call.project_id, "tasks", call.member)
    /\ TheProject(call.project_id).updated_at # None
    /\ Value(TheProject(call.project_id).updated_at) < now

\* C13: project membership is never checked against the task store: add_task
\* succeeds for a task id that has no Task record, deleting a task leaves
\* every project's task-id list unchanged (the id stays a member), and
\* reading the project's task ids returns such dangling ids without error.
C13_MembershipUnchecked ==
    [][/\ call'.op = "add_task" =>
            LET p == call'.project_id
                t == call'.member IN
            (add_task_to_project(p, t, TRUE)
                /\ t \notin DOMAIN tasks
                /\ p \in DOMAIN projects /\ ~IsMember(p, "tasks", t))
            => /\ call'.returned = Some(TRUE)
               /\ ListHas(get_project_tasks(projects', p), t)
       /\ \A i \in TaskIds :
            delete_task(i) =>
                /\ projects' = projects
                /\ \A p \in ProjectIds :
                      IsMember(p, "tasks", i) => IsMember(p, "tasks", i)'
       /\ call'.op = "get_project_tasks" =>
            LET p == call'.project_id IN
            read_project_tasks(p) =>
                /\ call'.raised = None
                /\ \A t \in TaskIds :
                      IsMember(p, "tasks", t) => ListHas(Value(call'.returned), t)
      ]_vars

\* A reader has been handed the id of a task that was deleted after it was
\* added to the project, next to an id no task ever had.
C13_Witness ==
    /\ call.op = "get_project_tasks"
    /\ call.raised = None
    /\ \E t \in TaskIds :
          t <= lastrowid /\ t \notin DOMAIN tasks /\ ListHas(Value(call.returned), t)
    /\ \E t \in TaskIds : t > lastrowid /\ ListHas(Value(call.returned), t)

\* ------------------------------------------------------- the task repository, called directly
\* Task objects a caller may hand to the repository: the dataclass defaults;
\* every field set; parameters an empty list; parameters a non-empty list;
\* tags a tuple.
FullTask ==
    [NewTask("email", "send_email", Dict([recipient |-> PyStr("a@b.cz")])) EXCEPT
        !.name = "Report", !.status = "completed", !.priority = 5,
        !.description = "monthly", !.created_by = Some(7),
        !.result = Dict([status |-> "success"]), !.error = Some("old error"),
        !.is_recurring = PyBool(TRUE), !.recurrence_pattern = Some("daily"),
        !.tags = List(<<"a", "b">>)]
RepoTasks ==
    { NewTask("", "", EmptyDict),
      FullTask,
      [FullTask EXCEPT !.parameters = EmptyList],
      [FullTask EXCEPT !.parameters = List(<<PyStr("a.pdf")>>)],
      [FullTask EXCEPT !.tags = Tuple(<<"a", "b">>)] }

\* TaskContext.create_task: INSERT under the next id, then the row read back.
create_task(t) ==
    /\ lastrowid < MaxTasks
    /\ tasks' = ((lastrowid + 1) :> RowOf(t)) @@ tasks
    /\ lastrowid' = lastrowid + 1
    /\ call' = [op |-> "create_task", arg |-> t,
                returned |-> get_task_by_id(tasks', lastrowid + 1)]
    /\ UNCHANGED <<now, pc, task, result, exc, response, trace, lastOutcome,
                   projects, files, service_available, documents, assigned, local_project>>

\* TaskContext.get_task_by_id called by a reader; `input` remembers the Task
\* handed to create_task when this read follows the create of the same id.
read_task(task_id) ==
    /\ call' = [op |-> "get_task_by_id", task_id |-> task_id,
                returned |-> get_task_by_id(tasks, task_id), raised |-> None,
                input |-> IF call.op = "create_task"
                             /\ Value(call.returned).id = Some(task_id)
                          THEN Some(call.arg) ELSE None]
    /\ UNCHANGED <<tasks, lastrowid, now, pc, task, result, exc, response, trace,
                   lastOutcome, projects, files, service_available,
                   documents, assigned, local_project>>

\* Task objects a caller may hand to update_task: one never saved (no id), or
\* one read from the store and changed.
UpdateArgs ==
    RepoTasks \cup
    {[Value(get_task_by_id(tasks, i)) EXCEPT !.status = "running"] : i \in DOMAIN tasks}

\* TaskContext.update_task called directly.
call_update_task(t, ok) ==
    /\ LET u == update_task(tasks, t, now, ok) IN
       /\ tasks' = u.store
       /\ call' = [op |-> "update_task", arg |-> t, after |-> u.task,
                   raised |-> u.raised, returned |-> u.returned]
    /\ UNCHANGED <<lastrowid, now, pc, task, result, exc, response, trace,
                   lastOutcome, projects, files, service_available,
                   documents, assigned, local_project>>

NextRepo ==
    \/ \E t \in RepoTasks : create_task(t)
    \/ \E i \in TaskIds : read_task(i)
    \/ \E t \in UpdateArgs, ok \in BOOLEAN : call_update_task(t, ok)
    \/ \E i \in TaskIds : delete_task(i)
    \/ tick

SpecRepo == Init /\ [][NextRepo]_vars

\* C14: repository update of a task whose id is unset fails with an error and
\* changes nothing: no row of the store is modified and the passed task's
\* updated_at is not refreshed.
C14_UpdateWithoutId ==
    [][\A t \in RepoTasks, ok \in BOOLEAN :
        (call_update_task(t, ok) /\ t.id = None) =>
            /\ call'.raised = Some(IdRequiredText)
            /\ call'.returned = None
            /\ tasks' = tasks
            /\ call'.after.updated_at = t.updated_at
            /\ call'.after = t
      ]_vars

\* update_task has been handed a task without id, at a clock reading later
\* than the last write, while the store holds a row.
C14_Witness ==
    /\ call.op = "update_task"
    /\ call.arg.id = None
    /\ call.raised # None
    /\ DOMAIN tasks # {}
    /\ now > 0

\* A get_task_by_id that directly follows the create_task of the same id.
GetAfterCreate ==
    call.op = "get_task_by_id" /\ call.input # None /\ call.returned # None

\* The fields that hold no JSON container and no truth value.
PlainFields ==
    {"name", "type", "category", "status", "priority", "description",
     "created_by", "error", "recurrence_pattern"}
\* `a == b` on two containers.
JsonEq(a, b) == a.shape = b.shape /\ a.val = b.val

JsonTyped(t) ==
    t.parameters.shape = "dict" /\ t.result.shape = "dict" /\ t.tags.shape = "list"

JsonFields == {"parameters", "result", "tags"}
\* The default a JSON field gets when its column is empty.
DefaultOf(f) == IF f = "tags" THEN EmptyList ELSE EmptyDict

\* A column json.loads is handed and rejects.
Unreadable(c) == ColumnTruthy(c) /\ ~json_valid(c)

\* `if d.get(f): d[f] = json.loads(d[f]) else: default` -- the JSON column loop
\* of get_tasks_by_status / get_tasks_by_category, for a text json.loads
\* accepts (on any other text json.loads raises: see TasksWhere).
StrictJsonField(c, default) == IF ~ColumnTruthy(c) THEN default ELSE json_loads(c)

\* The SELECT ... WHERE of the two filtered reads, then the loop over the rows:
\* the first unreadable column ends the call with JSONDecodeError.
\* (ORDER BY created_at is left out: the result is taken as a set.)
TasksWhere(store, ids) ==
    IF \E i \in ids, f \in JsonFields : Unreadable(store[i][f])
    THEN [returned |-> None, raised |-> Some("Expecting property name enclosed in double quotes: line 1 column 2 (char 1)")]
    ELSE [returned |-> Some({from_dict(RowDict(i, store[i],
                                StrictJsonField(store[i].parameters, EmptyDict),
                                StrictJsonField(store[i].result, EmptyDict),
                                StrictJsonField(store[i].tags, EmptyList))) : i \in ids}),
          raised |-> None]

get_tasks_by_status(store, status) ==
    TasksWhere(store, {i \in DOMAIN store : store[i].status = status})

get_tasks_by_category(store, category) ==
    TasksWhere(store, {i \in DOMAIN store : store[i].category = category})

\* get_all_tasks: every row, read with the tolerant loop.
get_all_tasks(store) ==
    [returned |-> Some({Value(get_task_by_id(store, i)) : i \in DOMAIN store}),
     raised |-> None]

\* What a JSON column of a row may hold when the database file is opened: the
\* text the repository itself wrote, NULL, '' or a text that is no JSON.
ColumnTexts(written) == {written, SqlNull, EmptyText, MalformedText}

\* The rows the database file may hold at start-up.
StoredRows ==
    LET row == RowOf(FullTask) IN
    {[row EXCEPT !.parameters = p, !.result = r, !.tags = g] :
        p \in ColumnTexts(row.parameters), r \in ColumnTexts(row.result),
        g \in ColumnTexts(row.tags)}

\* The application starts on an existing database file (CREATE TABLE IF NOT
\* EXISTS keeps its rows).
InitRead ==
    /\ tasks \in [1..MaxTasks -> StoredRows]
    /\ lastrowid = MaxTasks
    /\ now = 0
    /\ pc = [r \in Requests |-> "idle"]
    /\ task = [r \in Requests |-> NoTask]
    /\ result = [r \in Requests |-> None]
    /\ exc = [r \in Requests |-> None]
    /\ response = [r \in Requests |-> NoResponse]
    /\ trace = [r \in Requests |-> NoTrace]
    /\ lastOutcome = [i \in TaskIds |-> None]
    /\ projects = <<>>
    /\ files = {}
    /\ service_available = None
    /\ call = NoCall
    /\ documents = <<>>
    /\ assigned = {}
    /\ local_project = [r \in Requests |-> None]

ListCall(op, arg, r) ==
    [op |-> op, arg |-> arg, returned |-> r.returned, raised |-> r.raised]

read_all_tasks ==
    /\ call' = ListCall("get_all_tasks", "", get_all_tasks(tasks))
    /\ UNCHANGED <<tasks, lastrowid, now, pc, task, result, exc, response, trace,
                   lastOutcome, projects, files, service_available,
                   documents, assigned, local_project>>

read_tasks_by_status(status) ==
    /\ call' = ListCall("get_tasks_by_status", status, get_tasks_by_status(tasks, status))
    /\ UNCHANGED <<tasks, lastrowid, now, pc, task, result, exc, response, trace,
                   lastOutcome, projects, files, service_available,
                   documents, assigned, local_project>>

read_tasks_by_category(category) ==
    /\ call' = ListCall("get_tasks_by_category", category,
                        get_tasks_by_category(tasks, category))
    /\ UNCHANGED <<tasks, lastrowid, now, pc, task, result, exc, response, trace,
                   lastOutcome, projects, files, service_available,
                   documents, assigned, local_project>>

NextRead ==
    \/ \E i \in TaskIds : read_task(i)
    \/ read_all_tasks
    \/ \E s \in {"pending", "completed"} : read_tasks_by_status(s)
    \/ \E c \in {"email", "pdf"} : read_tasks_by_category(c)

SpecRead == InitRead /\ [][NextRead]_vars

ReadOps == {"get_task_by_id", "get_all_tasks", "get_tasks_by_status", "get_tasks_by_category"}
\* The tasks the last read handed out.
TasksRead == IF call.op = "get_task_by_id" THEN call.returned ELSE Value(call.returned)

\* C16: on every task read path (get by id, list_all, list_by_status,
\* list_by_category) a stored row whose parameters, result or tags column
\* holds absent or malformed JSON is returned with the default {} or [] in
\* that field, and the read does not raise.
C16_ReadsTolerateBadJson ==
    call.op \in ReadOps =>
        /\ call.raised = None
        /\ \A t \in TasksRead, f \in JsonFields :
              LET c == tasks[Value(t.id)][f] IN
              (~ColumnTruthy(c) \/ Unreadable(c)) => t[f] = DefaultOf(f)

\* ------------------------------------------------------- services/semantic_api_client.py
\* What GET /api/health meets: 200, another status, or RequestException.
HealthAnswers == {"ok", "unhealthy", "unreachable"}

\* Mutant of is_service_available: a cached False is probed again.
is_service_available_Reprobe(cache, health) ==
    IF cache = None \/ cache = Some(FALSE) THEN Some(health = "ok") ELSE cache

\* is_service_available: the probe is made once and its answer kept.
is_service_available(cache, health) ==
    IF cache = None THEN Some(health = "ok") ELSE cache

\* The dict get_project_context returns when it has nothing.
EmptyContext(project_id) ==
    Dict([project_id |-> project_id, chunk_count |-> 0, chunks |-> EmptyList])

Chunk(text) == Dict([text |-> text, importance_score |-> 1])
ErrorBodyText == "project not indexed"
NotJsonErrorText == "Expecting value: line 1 column 1 (char 0)"

\* What GET /api/context/<id> meets: no connection, an HTTP error status, or a
\* 200 whose body is a context with chunks, a context without, an error
\* mapping, a JSON array, or no JSON at all.
ContextAnswers ==
    {"unreachable", "http_error", "chunks", "no_chunks", "error_body", "array_body",
     "not_json"}

\* Mutant of get_project_context: an unavailable service is reported as an
\* error mapping, the way check_health reports it.
get_project_context_ErrorWhenDown(available, project_id, answer) ==
    IF ~available \/ answer \in {"unreachable", "http_error"}
    THEN {Return(Dict([status |-> "error", message |-> ErrorBodyText]))}
    ELSE {Return(EmptyContext(project_id))}

\* get_project_context: the outcomes for the cached probe value `available`
\* and the answer the GET meets.  A body that is no JSON makes response.json()
\* raise; whether that is a RequestException (caught at line 199) depends on
\* the installed requests version.
get_project_context(available, project_id, answer) ==
    IF ~available THEN {Return(EmptyContext(project_id))}
    ELSE IF answer \in {"unreachable", "http_error"} THEN {Return(EmptyContext(project_id))}
    ELSE IF answer = "chunks"
    THEN {Return(Dict([project_id |-> project_id, chunk_count |-> 2,
                       chunks |-> List(<<Chunk("alpha"), Chunk("beta")>>)]))}
    ELSE IF answer = "no_chunks" THEN {Return(EmptyContext(project_id))}
    ELSE IF answer = "error_body"
    THEN {Return(Dict([status |-> "error", message |-> ErrorBodyText]))}
    ELSE IF answer = "array_body" THEN {Return(EmptyList)}
    ELSE {Return(EmptyContext(project_id)), Raise(NotJsonErrorText)}

\* ------------------------------------------------------- services/llm_service.py
Providers == {"openai", "anthropic", "none"}
NotConfiguredText == "LLM neni nakonfigurovano. Nastavte API klic v promennych prostredi."
NoProjectContextText == "Pro tento projekt nebyl nalezen zadny relevantni kontext."
NoQueryContextText == "Pro tento dotaz nebyl nalezen zadny relevantni kontext."
ChatErrorPrefix == "Chyba pri generovani odpovedi: "

\* What the provider call (_call_openai / _call_anthropic) ends in: the text
\* of the completion, or the exception it re-raises.
LlmOutcomes == {Return("Dobry den."), Raise("401 Client Error: Unauthorized")}

\* _prepare_context_from_chunks
RECURSIVE JoinFragments(_, _)
JoinFragments(chunks, i) ==
    IF i > Len(chunks) THEN ""
    ELSE "FRAGMENT " \o ToString(i) \o ": " \o chunks[i].val.text \o "; "
         \o JoinFragments(chunks, i + 1)
prepare_context_from_chunks(chunks) ==
    IF ~Truthy(chunks) THEN NoQueryContextText ELSE JoinFragments(chunks.val, 1)

\* _create_chat_prompt
create_chat_prompt(question, context) ==
    "KONTEXT PROJEKTU: " \o context \o " OTAZKA: " \o question

\* The success envelope of lines 141-147.
ChatSuccess(response_text, context_chunks, clock) ==
    Dict([status |-> "success", message |-> "Odpoved byla uspesne vygenerovana", response |-> response_text,
          context_chunks |-> context_chunks, timestamp |-> isoformat(clock)])

\* The envelope of the except branch, lines 149-155.
ChatError(text, clock) == Envelope("error", ChatErrorPrefix \o text, clock)

\* What a chat_with_project call yields: the envelope returned, the exception
\* that left the call (None: every exit is a return) and (history) the prompt
\* the provider was called with, None when it was not called.
ChatResult(envelope, prompt) ==
    [returned |-> Some(envelope), raised |-> None, prompt |-> prompt]

\* Whether the context result takes the branch of line 115.
IsErrorResult(v) == v.shape = "dict" /\ DictGet(v, "status") = Some("error")

\* Lines 140-147 once the provider has returned: `len(chunks)` is evaluated
\* whenever the context result is a dict, and chunks has no value when the
\* branch of line 115 was taken.
AfterLlm(v, response_text, prompt, clock) ==
    IF IsErrorResult(v)
    THEN ChatResult(ChatError("cannot access local variable 'chunks' where it is not associated with a value", clock), Some(prompt))
    ELSE ChatResult(ChatSuccess(response_text, Len(Value(DictGet(v, "chunks")).val), clock),
                    Some(prompt))

\* Mutant of chat_with_project: the context fetch stands outside the try.
chat_with_project_FetchOutsideTry(provider, message, ctx, llm, clock) ==
    IF provider = "none"
    THEN ChatResult(Envelope("error", NotConfiguredText, clock), None)
    ELSE IF ctx.kind = "raise"
    THEN [returned |-> None, raised |-> Some(ctx.text), prompt |-> None]
    ELSE IF ctx.value.shape # "dict"
    THEN ChatResult(ChatError(ListGetErrorText, clock), None)
    ELSE LET context_text ==
                 IF IsErrorResult(ctx.value) THEN NoProjectContextText
                 ELSE prepare_context_from_chunks(Value(DictGet(ctx.value, "chunks")))
             prompt == create_chat_prompt(message, context_text)
         IN IF llm.kind = "raise"
            THEN ChatResult(ChatError(llm.text, clock), Some(prompt))
            ELSE AfterLlm(ctx.value, llm.value, prompt, clock)

\* chat_with_project for provider `provider`, the outcome `ctx` of
\* get_project_context and the outcome `llm` of the provider call.
chat_with_project(provider, message, ctx, llm, clock) ==
    IF provider = "none"
    THEN ChatResult(Envelope("error", NotConfiguredText, clock), None)
    ELSE IF ctx.kind = "raise" THEN ChatResult(ChatError(ctx.text, clock), None)
    ELSE IF ctx.value.shape # "dict"
    THEN ChatResult(ChatError(ListGetErrorText, clock), None)
    ELSE LET context_text ==
                 IF IsErrorResult(ctx.value) THEN NoProjectContextText
                 ELSE prepare_context_from_chunks(Value(DictGet(ctx.value, "chunks")))
             prompt == create_chat_prompt(message, context_text)
         IN IF llm.kind = "raise"
            THEN ChatResult(ChatError(llm.text, clock), Some(prompt))
            ELSE AfterLlm(ctx.value, llm.value, prompt, clock)

ChatMessage == "Co je noveho?"

\* POST /chat/project/<id>: the availability probe (cached on the client), the
\* context fetch and the chat itself.
chat_request(provider, health, answer, ctx, llm) ==
    /\ IF provider = "none"
       THEN UNCHANGED service_available
       ELSE service_available' = is_service_available(service_available, health)
    /\ provider # "none" =>
          ctx \in get_project_context(
                     Value(is_service_available(service_available, health)), "1", answer)
    /\ LET r == chat_with_project(provider, ChatMessage, ctx, llm, now) IN
       call' = [op |-> "chat_with_project", provider |-> provider,
                message |-> ChatMessage, health |-> health, answer |-> answer,
                context |-> IF provider = "none" THEN None ELSE Some(ctx),
                llm |-> llm, prompt |-> r.prompt,
                returned |-> r.returned, raised |-> r.raised]
    /\ UNCHANGED <<tasks, lastrowid, now, pc, task, result, exc, response, trace,
                   lastOutcome, projects, files, documents, assigned, local_project>>

NextChat ==
    \/ \E provider \in Providers, health \in HealthAnswers, answer \in ContextAnswers,
          llm \in LlmOutcomes :
            \E ctx \in get_project_context(
                           Value(is_service_available(service_available, health)),
                           "1", answer) :
                chat_request(provider, health, answer, ctx, llm)
    \/ tick

SpecChat == Init /\ [][NextChat]_vars

\* The last call was a chat with a provider configured whose call returned text.
ChatWithLlmText ==
    call.op = "chat_with_project" /\ call.provider # "none" /\ call.llm.kind = "return"

\* C17: with an LLM provider configured and its call succeeding,
\* chat_with_project returns a success envelope containing the response text
\* and a context fragment count of 0 when the semantic service is unreachable
\* (neither /api/health nor /api/context can be connected to); it does not
\* raise.
C17_UnreachableServiceStillAnswers ==
    (ChatWithLlmText /\ call.health = "unreachable" /\ call.answer = "unreachable") =>
        /\ call.raised = None
        /\ call.returned # None
        /\ DictGet(Value(call.returned), "status") = Some("success")
        /\ Value(call.returned).val.response = call.llm.value
        /\ Value(call.returned).val.context_chunks = 0

\* A chat has been answered while the service could not be reached, on a
\* client whose earlier probe had found the service up.
C17_Witness ==
    /\ ChatWithLlmText
    /\ call.health = "unreachable" /\ call.answer = "unreachable"
    /\ service_available = Some(TRUE)
    /\ call.prompt = Some(create_chat_prompt(ChatMessage, NoQueryContextText))
    /\ DictGet(Value(call.returned), "status") = Some("success")

\* C18: when the context fetch yields an error result (a mapping whose status
\* is "error"), chat_with_project substitutes the "no relevant context"
\* placeholder, still calls the LLM provider, and returns a success envelope
\* with the response and a context fragment count of 0 rather than an error
\* envelope.
C18_ErrorResultFallsBack ==
    (ChatWithLlmText /\ call.context # None
        /\ Value(call.context).kind = "return"
        /\ IsErrorResult(Value(call.context).value)) =>
        /\ call.prompt = Some(create_chat_prompt(call.message, NoProjectContextText))
        /\ call.returned # None
        /\ DictGet(Value(call.returned), "status") = Some("success")
        /\ Value(call.returned).val.response = call.llm.value
        /\ Value(call.returned).val.context_chunks = 0

\* C19: for every outcome of the context fetch and of the LLM call, including
\* either one raising, chat_with_project returns an envelope whose status is
\* success or error with a message and a timestamp and never propagates an
\* exception; the status is success only if the LLM call returned text.
C19_AlwaysAnEnvelope ==
    call.op = "chat_with_project" =>
        /\ call.raised = None
        /\ call.returned # None
        /\ Value(call.returned).shape = "dict"
        /\ {"status", "message", "timestamp"} \subseteq DOMAIN Value(call.returned).val
        /\ Value(call.returned).val.status \in {"success", "error"}
        /\ fromisoformat(Value(call.returned).val.timestamp) # None
        /\ Value(call.returned).val.status = "success" =>
              /\ call.prompt # None
              /\ call.llm.kind = "return"
              /\ Value(call.returned).val.response = call.llm.value

\* The context fetch has raised and the call has ended in an error envelope
\* without the provider being called.
C19_Witness ==
    /\ call.op = "chat_with_project"
    /\ call.context # None
    /\ Value(call.context).kind = "raise"
    /\ call.prompt = None
    /\ call.returned # None
    /\ Value(call.returned).val.message = ChatErrorPrefix \o NotJsonErrorText

\* ------------------------------------------------------- services/pdf_service.py
MaxFiles == 2     \* longest pdf_files list a caller passes

\* A path: its text is stem followed by suffix.
Path(stem, suffix) == [stem |-> stem, suffix |-> suffix]
PathText(p) == p.stem \o p.suffix
InputPaths == {Path("a", ".pdf"), Path("B", ".PDF"), Path("notes", ".txt")}
OutputPath == Path("out", ".pdf")

\* str.lower() on the suffixes in use.
lower(s) == IF s = ".PDF" THEN ".pdf" ELSE s

\* os.path.exists
exists(fs, p) == p \in fs

\* `pdf_file.lower().endswith('.pdf')`
is_pdf_name(p) == lower(p.suffix) = ".pdf"

\* Lines 36-48: the check loop from position i; the error envelope of the
\* first path that fails a check, None when every path passes.
RECURSIVE check_inputs(_, _, _, _)
check_inputs(fs, pdf_files, i, clock) ==
    IF i > Len(pdf_files) THEN None
    ELSE IF ~exists(fs, pdf_files[i])
    THEN Some(Envelope("error", "Soubor " \o PathText(pdf_files[i]) \o " neexistuje", clock))
    ELSE IF ~is_pdf_name(pdf_files[i])
    THEN Some(Envelope("error", "Soubor " \o PathText(pdf_files[i]) \o " neni PDF", clock))
    ELSE check_inputs(fs, pdf_files, i + 1, clock)

\* How the merge itself goes once the checks have passed: through, or
\* merger.append raises (a file that is no PDF inside), or merger.write raises
\* on opening the output, or raises after the output was opened.
MergeRuns == {"ok", "append_raises", "open_raises", "write_raises"}

\* Mutant of merge_pdfs: the output is opened before the inputs are checked.
merge_pdfs_WriteFirst(fs, pdf_files, output_path, run, clock) ==
    LET bad == check_inputs(fs, pdf_files, 1, clock) IN
    IF bad # None
    THEN [files |-> fs \cup {output_path}, wrote |-> TRUE, returned |-> Value(bad)]
    ELSE [files |-> fs \cup {output_path}, wrote |-> TRUE,
          returned |-> Dict([status |-> "success",
                             message |-> "PDF soubory byly uspesne slouceny",
                             output_path |-> PathText(output_path),
                             timestamp |-> isoformat(clock)])]

\* merge_pdfs: the file system after the call, whether merger.write was
\* entered, and the envelope returned.
merge_pdfs(fs, pdf_files, output_path, run, clock) ==
    LET bad == check_inputs(fs, pdf_files, 1, clock) IN
    IF bad # None THEN [files |-> fs, wrote |-> FALSE, returned |-> Value(bad)]
    ELSE IF run = "append_raises"
    THEN [files |-> fs, wrote |-> FALSE, returned |-> Envelope("error", "EOF marker not found", clock)]
    ELSE IF run = "open_raises"
    THEN [files |-> fs, wrote |-> TRUE, returned |-> Envelope("error", "[Errno 13] Permission denied: 'out.pdf'", clock)]
    ELSE IF run = "write_raises"
    THEN [files |-> fs \cup {output_path}, wrote |-> TRUE,
          returned |-> Envelope("error", "[Errno 28] No space left on device", clock)]
    ELSE [files |-> fs \cup {output_path}, wrote |-> TRUE,
          returned |-> Dict([status |-> "success",
                             message |-> "PDF soubory byly uspesne slouceny",
                             output_path |-> PathText(output_path),
                             timestamp |-> isoformat(clock)])]

\* The pdf_files lists a caller may pass.
PdfFileLists == UNION {[1..k -> InputPaths] : k \in 0..MaxFiles}

merge_request(pdf_files, run) ==
    /\ LET r == merge_pdfs(files, pdf_files, OutputPath, run, now) IN
       /\ files' = r.files
       /\ call' = [op |-> "merge_pdfs", pdf_files |-> pdf_files, run |-> run,
                   wrote |-> r.wrote, returned |-> r.returned]
    /\ UNCHANGED <<tasks, lastrowid, now, pc, task, result, exc, response, trace,
                   lastOutcome, projects, service_available,
                   documents, assigned, local_project>>

\* Files come and go beside the application.
file_created(p) ==
    /\ p \notin files
    /\ files' = files \cup {p}
    /\ UNCHANGED <<tasks, lastrowid, now, pc, task, result, exc, response, trace,
                   lastOutcome, projects, service_available, call,
                   documents, assigned, local_project>>

file_removed(p) ==
    /\ p \in files
    /\ files' = files \ {p}
    /\ UNCHANGED <<tasks, lastrowid, now, pc, task, result, exc, response, trace,
                   lastOutcome, projects, service_available, call,
                   documents, assigned, local_project>>

NextMerge ==
    \/ \E l \in PdfFileLists, run \in MergeRuns : merge_request(l, run)
    \/ \E p \in InputPaths : file_created(p)
    \/ \E p \in InputPaths \cup {OutputPath} : file_removed(p)

SpecMerge == Init /\ [][NextMerge]_vars

\* The first position of l whose path is missing or has no .pdf name, 0 if none.
FirstOffending(fs, l) ==
    LET bad == {i \in DOMAIN l : l[i] \notin fs \/ lower(l[i].suffix) # ".pdf"} IN
    IF bad = {} THEN 0 ELSE CHOOSE i \in bad : \A j \in bad : i <= j

\* C20: merge_pdfs writes the output file only if every listed input path
\* exists and has a .pdf name (case-insensitive); otherwise it returns an
\* error envelope naming the first offending path in list order and performs
\* no write, even when earlier paths in the list are valid.  When every path
\* passes and the merge runs through, the output is written.
C20_MergeChecksFirst ==
    [][(call'.op = "merge_pdfs" /\ merge_request(call'.pdf_files, call'.run)) =>
            LET l == call'.pdf_files
                run == call'.run
                k == FirstOffending(files, l) IN
            /\ call'.wrote => k = 0
            /\ k # 0 =>
                  /\ ~call'.wrote
                  /\ files' = files
                  /\ call'.returned.val.status = "error"
                  /\ call'.returned.val.message \in
                        {"Soubor " \o PathText(l[k]) \o " neexistuje",
                         "Soubor " \o PathText(l[k]) \o " neni PDF"}
            /\ (k = 0 /\ run = "ok") =>
                  /\ call'.wrote /\ OutputPath \in files'
                  /\ call'.returned.val.status = "success"
      ]_vars

\* A merge was refused for its second path although its first, an upper-case
\* .PDF name, was fine, and no output exists.
C20_Witness ==
    /\ call.op = "merge_pdfs"
    /\ Len(call.pdf_files) = 2
    /\ call.pdf_files[1] = Path("B", ".PDF")
    /\ call.pdf_files[1] \in files
    /\ call.returned.val.status = "error"
    /\ call.returned.val.message = "Soubor notes.txt neni PDF"
    /\ ~call.wrote
    /\ OutputPath \notin files

\* ------------------------------------------------------ services/file_service.py
\* The file system here is a set of entries; an entry lies directly in the
\* directory `dir` under the name `name`, and a regular file carries its
\* content as `data`.  The file system carries out every call made on it.
MaxEntries == 3   \* most regular files placed beside the application

FileEntry(dir, name, data) == [dir |-> dir, name |-> name, kind |-> "file", data |-> data]
DirEntry(dir, name) == [dir |-> dir, name |-> name, kind |-> "dir", data |-> 0]

\* os.path.join, os.path.exists, os.path.isfile, os.path.isdir, os.makedirs
join(dir, text) == dir \o "/" \o text
path_exists(fs, dir, name) == \E e \in fs : e.dir = dir /\ e.name = name
isfile(fs, dir, name) == \E e \in fs : e.dir = dir /\ e.name = name /\ e.kind = "file"
isdir(fs, d) ==
    d = "in" \/ \E e \in fs : e.kind = "dir" /\ join(e.dir, PathText(e.name)) = d
makedirs(fs, dir, text) ==
    IF isdir(fs, join(dir, text)) THEN fs ELSE fs \cup {DirEntry(dir, Path(text, ""))}

\* shutil.move / os.rename of a regular file: the entry leaves its place and
\* takes the destination, replacing a regular file that is already there.
move(fs, dir, name, to_dir, to_name) ==
    LET e == CHOOSE x \in fs : x.dir = dir /\ x.name = name IN
    {x \in fs : ~(x.dir = dir /\ x.name = name) /\ ~(x.dir = to_dir /\ x.name = to_name)}
        \cup {FileEntry(to_dir, to_name, e.data)}

\* Line 52.  A name is kept as os.path.splitext splits it; for the names in
\* use (no leading dot) rsplit('.', 1) finds the same extension.
get_extension(name) == lower(name.suffix)

\* Lines 197-206, extensions written with their dot; the folder names are
\* written without diacritics.
categories ==
    [Dokumenty |-> {".pdf", ".doc", ".docx", ".txt", ".rtf", ".odt"},
     Tabulky |-> {".xls", ".xlsx", ".csv", ".ods"},
     Obrazky |-> {".jpg", ".jpeg", ".png", ".gif", ".bmp", ".tiff", ".svg"},
     Audio |-> {".mp3", ".wav", ".ogg", ".flac", ".aac"},
     Video |-> {".mp4", ".avi", ".mkv", ".mov", ".wmv"},
     Archivy |-> {".zip", ".rar", ".7z", ".tar", ".gz"},
     Prezentace |-> {".ppt", ".pptx", ".odp"},
     Kod |-> {".py", ".js", ".html", ".css", ".java", ".cpp", ".c", ".php", ".rb"}]

\* Lines 229-232, 254-255: the category whose list holds the extension (the
\* lists are disjoint), the fallback folder when none does.
CategoryOf(extension) ==
    IF \E c \in DOMAIN categories : extension \in categories[c]
    THEN CHOOSE c \in DOMAIN categories : extension \in categories[c]
    ELSE "Ostatni"

\* Lines 238-241: the first counter from `counter` on whose name is free.
RECURSIVE free_name(_, _, _, _)
free_name(fs, dir, name, counter) ==
    LET candidate == Path(name.stem \o "_" \o ToString(counter), name.suffix) IN
    IF path_exists(fs, dir, candidate) THEN free_name(fs, dir, name, counter + 1)
    ELSE candidate

\* Mutant of dest_name: the plain name, taken or not.
dest_name_Overwrite(fs, dir, name) == name

\* Lines 233-241, 256-264: the name the file gets in its category folder.
dest_name(fs, dir, name) ==
    IF path_exists(fs, dir, name) THEN free_name(fs, dir, name, 1) ELSE name

\* Lines 218-272: the loop over the listing from position i on; directories
\* in the listing are skipped.
RECURSIVE organize_loop(_, _, _, _, _, _)
organize_loop(fs, directory, target_directory, listing, i, moved_files) ==
    IF i > Len(listing) THEN [files |-> fs, moved_files |-> moved_files]
    ELSE IF ~isfile(fs, directory, listing[i])
    THEN organize_loop(fs, directory, target_directory, listing, i + 1, moved_files)
    ELSE LET filename == listing[i]
             category == CategoryOf(get_extension(filename))
             category_dir == join(target_directory, category)
             dest == dest_name(fs, category_dir, filename)
         IN  organize_loop(move(fs, directory, filename, category_dir, dest),
                           directory, target_directory, listing, i + 1,
                           Append(moved_files,
                                  [filename |-> filename, category |-> category,
                                   destination |-> [dir |-> category_dir, name |-> dest]]))

\* Lines 209-213: the folders of every category and the fallback folder.
RECURSIVE make_category_dirs(_, _, _)
make_category_dirs(fs, target, todo) ==
    IF todo = {} THEN fs
    ELSE LET c == CHOOSE x \in todo : TRUE IN
         make_category_dirs(makedirs(fs, target, c), target, todo \ {c})

\* Lines 171-286.  `listing` is the order in which os.listdir names the
\* entries of the directory.
organize_files(fs, directory, target_directory, listing, clock) ==
    IF ~isdir(fs, directory)
    THEN [files |-> fs,
          returned |-> Envelope("error",
                          "Adresar " \o directory \o " neexistuje nebo neni adresar", clock)]
    ELSE LET target == IF target_directory = None THEN directory
                       ELSE Value(target_directory)
             made == make_category_dirs(fs, target, DOMAIN categories \cup {"Ostatni"})
             r == organize_loop(made, directory, target, listing, 1, <<>>)
         IN  [files |-> r.files,
              returned |-> Dict([status |-> "success",
                                 message |-> "Presunuto " \o ToString(Len(r.moved_files))
                                             \o " souboru do kategorii",
                                 moved_files |-> r.moved_files,
                                 timestamp |-> isoformat(clock)])]

\* The orders in which a listing can name the entries of a directory.  The
\* category folders are left out: the loop skips a directory wherever it stands.
RECURSIVE Orders(_)
Orders(names) ==
    IF names = {} THEN {<<>>}
    ELSE UNION {{<<n>> \o l : l \in Orders(names \ {n})} : n \in names}

Listings(fs, directory) ==
    Orders({e.name : e \in {x \in fs : x.dir = directory /\ x.name.stem \notin
                                             DOMAIN categories \cup {"Ostatni"}}})

organize_request(directory, target_directory, listing) ==
    /\ LET r == organize_files(files, directory, target_directory, listing, now) IN
       /\ files' = r.files
       /\ call' = [op |-> "organize_files", directory |-> directory,
                   target_directory |-> target_directory, listing |-> listing,
                   returned |-> r.returned]
    /\ UNCHANGED <<tasks, lastrowid, now, pc, task, result, exc, response, trace,
                   lastOutcome, projects, service_available,
                   documents, assigned, local_project>>

\* Entries that appear beside the application.
PlacedEntries ==
    {FileEntry("in", Path("report", ".pdf"), 1),
     FileEntry("in", Path("report_1", ".pdf"), 2),
     FileEntry("in", Path("B", ".PDF"), 3),
     FileEntry("in", Path("photo", ".jpg"), 4),
     FileEntry("in", Path("unknownext", ".xyz"), 5),
     DirEntry("in", Path("sub", "")),
     FileEntry("in/sub", Path("report", ".pdf"), 6),
     DirEntry("in", Path("Dokumenty", "")),
     FileEntry("in/Dokumenty", Path("report", ".pdf"), 7)}

entry_placed(e) ==
    /\ ~path_exists(files, e.dir, e.name)
    /\ isdir(files, e.dir)
    /\ e.kind = "file" => /\ Cardinality({x \in files : x.kind = "file"}) < MaxEntries
                          /\ \A x \in files : x.data # e.data
    /\ files' = files \cup {e}
    /\ UNCHANGED <<tasks, lastrowid, now, pc, task, result, exc, response, trace,
                   lastOutcome, projects, service_available, call,
                   documents, assigned, local_project>>

NextOrganize ==
    \/ \E e \in PlacedEntries : entry_placed(e)
    \/ \E l \in Listings(files, "in") : organize_request("in", None, l)
    \/ \E l \in Listings(files, "in/sub") : organize_request("in/sub", Some("in"), l)

SpecOrganize == Init /\ [][NextOrganize]_vars

\* The names present in `dir` just before the i-th move of the report: those
\* there before the call and the destinations of the moves before it.
TakenBefore(fs, moved, i, dir) ==
    {e.name : e \in {x \in fs : x.dir = dir}}
        \cup {moved[j].destination.name :
                  j \in {x \in 1..(i - 1) : moved[x].destination.dir = dir}}

Numbered(name, k) == Path(name.stem \o "_" \o ToString(k), name.suffix)

\* C21: organize_files moves every regular file directly in the directory
\* into exactly one category folder chosen by its lower-cased extension (the
\* fallback folder when no category lists it), reports one entry per moved
\* file, leaves subdirectories alone, and never overwrites an existing file: on
\* a name collision the file is stored as base_k.ext for the smallest k >= 1
\* not already present.
C21_OrganizeMovesEveryFile ==
    [][(/\ call'.op = "organize_files"
        /\ organize_request(call'.directory, call'.target_directory, call'.listing)
        /\ isdir(files, call'.directory)) =>
            LET directory == call'.directory
                target == IF call'.target_directory = None THEN directory
                          ELSE Value(call'.target_directory)
                moved == call'.returned.val.moved_files
                regular == {e \in files : e.dir = directory /\ e.kind = "file"}
                folders == {DirEntry(target, Path(c, "")) :
                                c \in DOMAIN categories \cup {"Ostatni"}}
                stored == {FileEntry(moved[i].destination.dir, moved[i].destination.name,
                                     (CHOOSE e \in regular : e.name = moved[i].filename).data) :
                               i \in DOMAIN moved}
            IN  /\ call'.returned.val.status = "success"
                /\ Len(moved) = Cardinality(regular)
                /\ {moved[i].filename : i \in DOMAIN moved} = {e.name : e \in regular}
                /\ \A i \in DOMAIN moved :
                       LET m == moved[i]
                           extension == lower(m.filename.suffix)
                           taken == TakenBefore(files, moved, i, m.destination.dir)
                       IN  /\ \/ /\ m.category \in DOMAIN categories
                                 /\ extension \in categories[m.category]
                              \/ /\ m.category = "Ostatni"
                                 /\ \A c \in DOMAIN categories : extension \notin categories[c]
                           /\ m.destination.dir = join(target, m.category)
                           /\ m.destination.name \notin taken
                           /\ \/ m.destination.name = m.filename
                              \/ /\ m.filename \in taken
                                 /\ \E k \in 1..(Cardinality(taken) + 1) :
                                        /\ m.destination.name = Numbered(m.filename, k)
                                        /\ \A j \in 1..(k - 1) : Numbered(m.filename, j) \in taken
                /\ files \ regular \subseteq files'
                /\ files' = (files \ regular) \cup folders \cup stored]_vars

\* A third report.pdf reaches a folder that already holds report.pdf and
\* report_1.pdf, next to a file that went to the fallback folder or not.
C21_Witness ==
    /\ call.op = "organize_files"
    /\ call.returned.val.status = "success"
    /\ \E i \in DOMAIN call.returned.val.moved_files :
           call.returned.val.moved_files[i].destination.name = Path("report_2", ".pdf")

\* ------------------------------------------------- file_service.py: rename_files
\* Here a file name is the sequence of its characters and a pattern is one
\* literal character.

\* pattern_re.search(filename)
re_search(pattern, filename) == \E i \in DOMAIN filename : filename[i] = pattern

\* pattern_re.sub(replacement, filename)
RECURSIVE re_sub(_, _, _)
re_sub(pattern, replacement, filename) ==
    IF filename = <<>> THEN <<>>
    ELSE (IF Head(filename) = pattern THEN replacement ELSE <<Head(filename)>>)
             \o re_sub(pattern, replacement, Tail(filename))

\* Lines 143-155: the loop over the listing from position i on.  os.rename
\* replaces a regular file that has the new name, and raises when the new name
\* is empty or is that of a directory; what was renamed before stays renamed.
RECURSIVE rename_loop(_, _, _, _, _, _, _)
rename_loop(fs, directory, pattern, replacement, listing, i, renamed_files) ==
    IF i > Len(listing)
    THEN [files |-> fs, renamed_files |-> renamed_files, raised |-> FALSE]
    ELSE LET filename == listing[i]
             new_filename == re_sub(pattern, replacement, filename)
         IN  IF ~(isfile(fs, directory, filename) /\ re_search(pattern, filename))
                \/ new_filename = filename
             THEN rename_loop(fs, directory, pattern, replacement, listing, i + 1,
                              renamed_files)
             ELSE IF new_filename = <<>>
                     \/ (path_exists(fs, directory, new_filename)
                         /\ ~isfile(fs, directory, new_filename))
             THEN [files |-> fs, renamed_files |-> renamed_files, raised |-> TRUE]
             ELSE rename_loop(move(fs, directory, filename, directory, new_filename),
                              directory, pattern, replacement, listing, i + 1,
                              Append(renamed_files,
                                     [old_name |-> filename, new_name |-> new_filename,
                                      path |-> directory]))

\* Lines 100-169 with recursive = False.
rename_files(fs, directory, pattern, replacement, listing, clock) ==
    IF ~isdir(fs, directory)
    THEN [files |-> fs,
          returned |-> Envelope("error",
                          "Adresar " \o directory \o " neexistuje nebo neni adresar", clock)]
    ELSE LET r == rename_loop(fs, directory, pattern, replacement, listing, 1, <<>>) IN
         [files |-> r.files,
          returned |-> IF r.raised THEN Envelope("error", "[Errno] os.rename", clock)
                       ELSE Dict([status |-> "success",
                                  message |-> "Prejmenovano "
                                              \o ToString(Len(r.renamed_files)) \o " souboru",
                                  renamed_files |-> r.renamed_files,
                                  timestamp |-> isoformat(clock)])]

rename_request(pattern, replacement, listing) ==
    /\ LET r == rename_files(files, "in", pattern, replacement, listing, now) IN
       /\ files' = r.files
       /\ call' = [op |-> "rename_files", pattern |-> pattern,
                   replacement |-> replacement, listing |-> listing,
                   returned |-> r.returned]
    /\ UNCHANGED <<tasks, lastrowid, now, pc, task, result, exc, response, trace,
                   lastOutcome, projects, service_available,
                   documents, assigned, local_project>>

\* The directory holds some of four files, and perhaps a subdirectory named
\* "aa" with a file of its own.
InitRename ==
    /\ tasks = <<>>
    /\ lastrowid = 0
    /\ now = 0
    /\ pc = [r \in Requests |-> "idle"]
    /\ task = [r \in Requests |-> NoTask]
    /\ result = [r \in Requests |-> None]
    /\ exc = [r \in Requests |-> None]
    /\ response = [r \in Requests |-> NoResponse]
    /\ trace = [r \in Requests |-> NoTrace]
    /\ lastOutcome = [i \in TaskIds |-> None]
    /\ projects = <<>>
    /\ service_available = None
    /\ call = NoCall
    /\ documents = <<>>
    /\ assigned = {}
    /\ local_project = [r \in Requests |-> None]
    /\ \E top \in SUBSET {FileEntry("in", <<"a">>, 1), FileEntry("in", <<"b">>, 2),
                          FileEntry("in", <<"a", "b">>, 3), FileEntry("in", <<"b", "b">>, 4)},
          sub \in {{}, {DirEntry("in", <<"a", "a">>), FileEntry("in/aa", <<"a">>, 5)}} :
           files = top \cup sub

NextRename ==
    \E replacement \in {<<"b">>, <<"a">>, <<>>} :
        \E l \in Orders({e.name : e \in {x \in files : x.dir = "in"}}) :
            rename_request("a", replacement, l)

SpecRename == InitRename /\ [][NextRename]_vars

\* C22: non-recursive rename_files renames exactly the regular files directly
\* in the directory whose name contains a match of the pattern and whose
\* substituted name differs, each to its substituted name; every other file
\* (non-matching files and files in subdirectories) keeps its name and
\* content, no file is lost, and the returned list has exactly one entry per
\* renamed file.
C22_RenameExactlyMatching ==
    [][(/\ call'.op = "rename_files"
        /\ rename_request(call'.pattern, call'.replacement, call'.listing)) =>
            LET new_name(e) == re_sub(call'.pattern, call'.replacement, e.name)
                matching == {e \in files : /\ e.dir = "in" /\ e.kind = "file"
                                           /\ re_search(call'.pattern, e.name)
                                           /\ new_name(e) # e.name}
            IN  /\ call'.returned.val.status = "success"
                /\ files' = (files \ matching)
                                \cup {FileEntry("in", new_name(e), e.data) : e \in matching}
                /\ {e.data : e \in files'} = {e.data : e \in files}
                /\ Cardinality(files') = Cardinality(files)
                /\ Len(call'.returned.val.renamed_files) = Cardinality(matching)
                /\ {<<m.old_name, m.new_name>> :
                        m \in {call'.returned.val.renamed_files[i] :
                                   i \in DOMAIN call'.returned.val.renamed_files}}
                       = {<<e.name, new_name(e)>> : e \in matching}]_vars

\* ------------------------------------------- email_service.py: check_inbox
MaxMessages == 3   \* most messages in the folder

\* A folder: its messages in ascending id order, each seen or not.
Mailboxes ==
    UNION {[1..n -> [id : 1..MaxMessages, seen : BOOLEAN]] : n \in 0..MaxMessages}

\* A Python slice s[start:].
slice_from(s, start) ==
    LET from == IF start < 0
                THEN (IF start + Len(s) < 0 THEN 0 ELSE start + Len(s))
                ELSE (IF start > Len(s) THEN Len(s) ELSE start)
    IN  SubSeq(s, from + 1, Len(s))

\* Lines 121-123: the ids mail.search answers with.
search(mailbox, unread_only) ==
    SelectSeq(mailbox, LAMBDA m : ~unread_only \/ ~m.seen)

\* Line 126.
limit_email_ids(email_ids, limit) ==
    IF Len(email_ids) > limit THEN slice_from(email_ids, 0 - limit) ELSE email_ids

\* Lines 112-228.  A summary keeps the id of its message (the other keys are
\* decoded from the message); `fails_at` is the position in the loop at which
\* a call on the server raises, 0 when none does.
check_inbox_fetch(mailbox, limit, unread_only, fails_at, clock) ==
    LET email_ids == limit_email_ids(search(mailbox, unread_only), limit)
        summary(m) == Dict([id |-> ToString(m.id)])
        done == IF fails_at = 0 \/ fails_at > Len(email_ids) THEN Len(email_ids)
                ELSE fails_at - 1
        results == [i \in 1..done |-> summary(email_ids[i])]
    IN  IF done = Len(email_ids) THEN List(results)
        ELSE List(Append(results, Envelope("error", "imaplib.IMAP4.error", clock)))

inbox_request(mailbox, limit, unread_only, fails_at) ==
    /\ call' = [op |-> "check_inbox", mailbox |-> mailbox, limit |-> limit,
                unread_only |-> unread_only, fails_at |-> fails_at,
                returned |-> check_inbox_fetch(mailbox, limit, unread_only, fails_at, now)]
    /\ UNCHANGED <<tasks, lastrowid, now, pc, task, result, exc, response, trace,
                   lastOutcome, projects, files, service_available,
                   documents, assigned, local_project>>

NextInbox ==
    \E mailbox \in {m \in Mailboxes : \A i \in DOMAIN m : m[i].id = i},
       limit \in 0..(MaxMessages + 1), unread_only \in BOOLEAN, fails_at \in 0..1 :
        inbox_request(mailbox, limit, unread_only, fails_at)

SpecInbox == Init /\ [][NextInbox]_vars

\* C23: for every limit >= 0 and every mailbox content, check_inbox returns at
\* most `limit` message summaries, and they are the `limit` most recent
\* matching message ids (all of them when fewer than `limit` match).
C23_AtMostLimitMostRecent ==
    (call.op = "check_inbox" /\ call.fails_at = 0) =>
        LET matching == search(call.mailbox, call.unread_only)
            n == Len(matching)
            kept == IF n > call.limit THEN call.limit ELSE n
            summaries == call.returned.val
        IN  /\ Len(summaries) <= call.limit
            /\ Len(summaries) = kept
            /\ \A i \in 1..Len(summaries) :
                   summaries[i].val.id = ToString(matching[n - Len(summaries) + i].id)

\* ------------------------------------------- controllers/document_controller.py
MaxUploads == 3   \* most uploads accepted in a run

\* werkzeug's secure_filename on the names in use.
secure_filename(filename) == IF filename = "my doc.pdf" THEN "my_doc.pdf" ELSE filename

\* Line 36 (config.py line 12): the names in use whose extension is allowed.
allowed_file(filename) == filename \in {"my doc.pdf", "a.txt"}

\* next((d for d in documents if d.id == document_id), None)
find_document(docs, document_id) ==
    LET found == {i \in DOMAIN docs : docs[i].id = document_id} IN
    IF found = {} THEN None
    ELSE Some(docs[CHOOSE i \in found : \A j \in found : i <= j])

\* Line 56.
new_document_id(docs) ==
    IF docs # <<>>
    THEN (CHOOSE m \in {docs[i].id : i \in DOMAIN docs} :
              \A i \in DOMAIN docs : docs[i].id <= m) + 1
    ELSE 1

\* Lines 21-82, POST.  `serial` stands for uuid.uuid4().hex: no two uploads
\* share it.
upload_document(docs, fs, filename, serial, clock) ==
    IF filename = ""
    THEN [documents |-> docs, files |-> fs, code |-> 400, created |-> None]
    ELSE IF ~allowed_file(filename)
    THEN [documents |-> docs, files |-> fs, code |-> 400, created |-> None]
    ELSE LET file_path == "uploads/" \o ToString(serial) \o "_" \o secure_filename(filename)
             document == [id |-> new_document_id(docs),
                          name |-> secure_filename(filename),
                          file_path |-> file_path, uploaded_by |-> 1,
                          created_at |-> clock]
         IN  [documents |-> Append(docs, document), files |-> fs \cup {file_path},
              code |-> 302, created |-> Some(document)]

\* Lines 93-110.
download_document(docs, fs, document_id) ==
    LET document == find_document(docs, document_id) IN
    IF document = None THEN [code |-> 404, message |-> "Dokument nebyl nalezen"]
    ELSE IF ~exists(fs, Value(document).file_path)
    THEN [code |-> 404, message |-> "Soubor neexistuje nebo byl smazan"]
    ELSE [code |-> 200, message |-> Value(document).file_path]

\* Mutant of delete_document: a record whose file is gone is reported missing.
delete_document_NeedsFile(docs, fs, document_id) ==
    LET document == find_document(docs, document_id) IN
    IF document = None \/ ~exists(fs, Value(document).file_path)
    THEN [documents |-> docs, files |-> fs, code |-> 404, status |-> "error"]
    ELSE [documents |-> SelectSeq(docs, LAMBDA d : d # Value(document)),
          files |-> fs \ {Value(document).file_path}, code |-> 200, status |-> "success"]

\* Lines 112-126.
delete_document(docs, fs, document_id) ==
    LET document == find_document(docs, document_id) IN
    IF document = None
    THEN [documents |-> docs, files |-> fs, code |-> 404, status |-> "error"]
    ELSE [documents |-> SelectSeq(docs, LAMBDA d : d # Value(document)),
          files |-> IF exists(fs, Value(document).file_path)
                    THEN fs \ {Value(document).file_path} ELSE fs,
          code |-> 200, status |-> "success"]

upload_request(filename) ==
    /\ Cardinality(assigned) < MaxUploads
    /\ LET r == upload_document(documents, files, filename, Cardinality(assigned) + 1, now) IN
       /\ documents' = r.documents
       /\ files' = r.files
       /\ assigned' = IF r.created = None THEN assigned
                      ELSE assigned \cup {[id |-> Value(r.created).id,
                                           file_path |-> Value(r.created).file_path]}
       /\ call' = [op |-> "upload_document", filename |-> filename, code |-> r.code]
    /\ UNCHANGED <<tasks, lastrowid, now, pc, task, result, exc, response, trace,
                   lastOutcome, projects, service_available, local_project>>

download_request(document_id) ==
    /\ call' = [op |-> "download_document", document_id |-> document_id,
                response |-> download_document(documents, files, document_id)]
    /\ UNCHANGED <<tasks, lastrowid, now, pc, task, result, exc, response, trace,
                   lastOutcome, projects, files, service_available, documents,
                   assigned, local_project>>

delete_request(document_id) ==
    /\ LET r == delete_document(documents, files, document_id) IN
       /\ documents' = r.documents
       /\ files' = r.files
       /\ call' = [op |-> "delete_document", document_id |-> document_id,
                   file_found |-> \E i \in DOMAIN documents :
                                     /\ documents[i].id = document_id
                                     /\ exists(files, documents[i].file_path),
                   code |-> r.code, status |-> r.status]
    /\ UNCHANGED <<tasks, lastrowid, now, pc, task, result, exc, response, trace,
                   lastOutcome, projects, service_available, assigned, local_project>>

NextDocuments ==
    \/ \E filename \in {"", "my doc.pdf", "a.txt", "a.exe"} : upload_request(filename)
    \/ \E d \in 1..MaxUploads : download_request(d)
    \/ \E d \in 1..MaxUploads : delete_request(d)
    \/ \E p \in files : file_removed(p)

SpecDocuments == Init /\ [][NextDocuments]_vars

\* C24: delete-document removes both the stored file and the document record,
\* and still removes the record (reporting success) when the file has already
\* been removed externally; a record whose file is gone is detected on
\* download as a not-found response that leaves the record in place.
C24_DeleteAndDanglingRecord ==
    [][/\ (call'.op = "delete_document" /\ delete_request(call'.document_id)
           /\ find_document(documents, call'.document_id) # None) =>
              LET document == Value(find_document(documents, call'.document_id)) IN
              /\ call'.code = 200 /\ call'.status = "success"
              /\ find_document(documents', call'.document_id) = None
              /\ document.file_path \notin files'
              /\ files' = files \ {document.file_path}
              /\ \A i \in DOMAIN documents :
                     documents[i] # document =>
                         \E j \in DOMAIN documents' : documents'[j] = documents[i]
       /\ (call'.op = "download_document" /\ download_request(call'.document_id)
           /\ find_document(documents, call'.document_id) # None
           /\ Value(find_document(documents, call'.document_id)).file_path \notin files) =>
              /\ call'.response.code = 404
              /\ documents' = documents]_vars

\* A record was deleted, with success, after its file had been removed
\* beside the application.
C24_Witness ==
    /\ call.op = "delete_document"
    /\ call.code = 200
    /\ ~call.file_found

\* C28: after any sequence of document uploads and deletes, an id once
\* assigned to a document is never assigned to a different document, even
\* after the first one was deleted.
C28_IdNeverReassigned ==
    \A a, b \in assigned : a.id = b.id => a.file_path = b.file_path

\* ------------------------------------------- run_task: two calls that overlap
\* Flask serves requests on threads: a second run_task may start, for the same
\* task id, while the first is anywhere between its load and its return.  One
\* task is created and each of the two requests is followed up to its return.
NextOverlap ==
    \/ \E input \in {<<"email", "send_email", Dict([recipient |-> PyStr("a@b.cz")])>>,
                     <<"email", "check_inbox", EmptyDict>>} :
           tasks = <<>> /\ api_create_task(input)
    \/ \E r \in Requests, task_id \in DOMAIN tasks : run_task_load(r, task_id)
    \/ \E r \in Requests : run_task_mark_running(r)
    \/ \E r \in Requests : run_task_dispatch(r)
    \/ \E r \in Requests : run_task_persist(r)
    \/ \E r \in Requests : run_task_except(r)

SpecOverlap == Init /\ [][NextOverlap]_vars

\* Both calls have returned, for the same task, after overlapping: each was
\* loaded before the other had written its outcome.
BothReturned ==
    /\ \A r \in Requests : Returned(r)
    /\ \A r, q \in Requests : trace[r].task_id = trace[q].task_id
    /\ \A r \in Requests : Value(trace[r].before).status \notin Terminal

OutcomeFields(row) == <<row.status, row.result, row.error, row.completed_at>>

\* C25: when two run-task calls on the same task id overlap, both invoke the
\* handler, and once both have returned (every repository write of the two
\* having gone through) the persisted status, result, error and completed_at
\* are exactly those written by whichever call performed its final persist
\* last; no interleaving leaves the task in status running after both have
\* returned.
C25_LastWriterWins ==
    (BothReturned /\ \A r \in Requests :
                         \A i \in DOMAIN trace[r].updates : trace[r].updates[i] = "ok") =>
        LET row == tasks[trace[Worker].task_id] IN
        /\ \A r \in Requests : trace[r].invoked
        /\ row.status \in Terminal
        /\ \E r \in Requests :
               /\ OutcomeFields(row) = OutcomeFields(RowOf(task[r]))
               /\ lastOutcome[trace[r].task_id] = trace[r].outcome

\* Two overlapping calls whose handlers ended differently: one call persisted
\* completed and the other failed, and the stored row is the failed one.
C25_Witness ==
    /\ BothReturned
    /\ \A r \in Requests : \A i \in DOMAIN trace[r].updates : trace[r].updates[i] = "ok"
    /\ \E r, q \in Requests : task[r].status = "completed" /\ task[q].status = "failed"
    /\ tasks[trace[Worker].task_id].status = "failed"

\* ------------------------------- add_task_to_project: two calls that overlap
\* The call in two steps: the read of the project (line 202), then the write
\* of the whole project as the caller holds it (lines 207-209).

\* Mutant of project_to_update: the id is appended to the list as stored now.
project_to_update_Reread(store, p, task_id) ==
    [Value(get_project_by_id(store, Value(p.id))) EXCEPT !.tasks = ListAppend(@, task_id)]

\* Lines 207-208: the caller's Project, with the id appended to the list it
\* read.
project_to_update(store, p, task_id) == [p EXCEPT !.tasks = ListAppend(@, task_id)]

\* Lines 202-206, 211.
add_task_read(r, project_id, task_id) ==
    /\ IF local_project[r] = None THEN TRUE ELSE Value(local_project[r]).stage = "done"
    /\ LET found == get_project_by_id(projects, project_id)
           go_on == found # None /\ ~ListHas(Value(found).tasks, task_id)
       IN  local_project' = [local_project EXCEPT ![r] =
               Some([project_id |-> project_id, task_id |-> task_id, project |-> found,
                     stage |-> IF go_on THEN "update" ELSE "done",
                     returned |-> IF go_on THEN None ELSE Some(FALSE)])]
    /\ UNCHANGED <<tasks, lastrowid, now, pc, task, result, exc, response, trace,
                   lastOutcome, projects, files, service_available, call,
                   documents, assigned>>

\* Lines 207-210; nothing is returned when update_project raises.
add_task_update(r, ok) ==
    /\ local_project[r] # None
    /\ Value(local_project[r]).stage = "update"
    /\ LET l == Value(local_project[r])
           u == update_project(projects,
                               project_to_update(projects, Value(l.project), l.task_id),
                               now, ok)
       IN  /\ projects' = u.store
           /\ local_project' = [local_project EXCEPT ![r] =
                  Some([l EXCEPT !.stage = "done",
                                 !.returned = IF u.raised = None THEN Some(TRUE) ELSE None])]
    /\ UNCHANGED <<tasks, lastrowid, now, pc, task, result, exc, response, trace,
                   lastOutcome, files, service_available, call, documents, assigned>>

NextAddRace ==
    \/ create_project
    \/ \E r \in Requests, p \in ProjectIds, t \in TaskIds : add_task_read(r, p, t)
    \/ \E r \in Requests, ok \in BOOLEAN : add_task_update(r, ok)

SpecAddRace == Init /\ [][NextAddRace]_vars

\* Both calls have returned true, for different task ids of one project, and
\* each had read the project before the other wrote it.
BothAddedFromOneRead ==
    /\ \A r \in Requests :
           /\ local_project[r] # None
           /\ Value(local_project[r]).returned = Some(TRUE)
    /\ \A r, q \in Requests :
           /\ Value(local_project[r]).project_id = Value(local_project[q]).project_id
           /\ Value(local_project[r]).project = Value(local_project[q]).project
           /\ r # q => Value(local_project[r]).task_id # Value(local_project[q]).task_id

\* C26: add_task_to_project is not atomic.  Each call writes back the whole
\* list it read, with its own id appended: when two add_task calls with
\* different task ids on the same project overlap, so that both read the
\* project before either wrote it, and both return true, the stored task-id
\* list is the list read plus the id of one call only, and the id of the
\* other is lost.
C26_LostUpdate ==
    BothAddedFromOneRead =>
        LET stored == get_project_tasks(projects, Value(local_project[Worker]).project_id)
        IN  /\ \E r \in Requests :
                   stored = ListAppend(Value(Value(local_project[r]).project).tasks,
                                       Value(local_project[r]).task_id)
            /\ Cardinality({r \in Requests :
                                ListHas(stored, Value(local_project[r]).task_id)}) = 1

\* The interleaving the claim names: both calls returned true and the stored
\* list holds the id of one of them only.
C26_Witness ==
    /\ BothAddedFromOneRead
    /\ \E r \in Requests :
           ~ListHas(get_project_tasks(projects, Value(local_project[r]).project_id),
                    Value(local_project[r]).task_id)

\* C27: running an email.check_inbox task through run_task always ends (when
\* the repository writes go through) with persisted status failed and an
\* error response, whether or not the inbox fetch succeeded, because the
\* handler returns a list rather than an envelope; the fetched messages are
\* never stored in the task's result, which stays what it was.
C27_CheckInboxAlwaysFails ==
    \A r \in Requests :
        (/\ Returned(r)
         /\ Value(trace[r].before).category = "email"
         /\ Value(trace[r].before).type = "check_inbox"
         /\ trace[r].updates = <<"ok", "ok">>) =>
            /\ trace[r].invoked
            /\ Value(trace[r].outcome).shape = "list"
            /\ response[r].status = "error"
            /\ response[r].code = 500
            /\ StoredRow(r).status = "failed"
            /\ StoredRow(r).error = Some(ListGetErrorText)
            /\ StoredRow(r).result = Value(trace[r].before).result
            /\ json_loads(StoredRow(r).result) # Value(trace[r].outcome)

\* The fetch succeeded with one message, and the task is failed all the same.
C27_Witness ==
    \E r \in Requests :
        /\ Returned(r)
        /\ trace[r].updates = <<"ok", "ok">>
        /\ trace[r].outcome # None
        /\ Value(trace[r].outcome).shape = "list"
        /\ Len(Value(trace[r].outcome).val) = 1
        /\ "subject" \in DOMAIN Value(trace[r].outcome).val[1]
        /\ StoredRow(r).status = "failed"

MaxLines == 2   \* most lines of a content string

\* A line of the content is written run by run: a run is `n` times the
\* character `ch` (" " or a letter), so that lines far longer than a drawn line
\* stay small.  Positions count from 0, as in Python.
Run(ch, n) == [ch |-> ch, n |-> n]

RECURSIVE len(_)
len(line) == IF line = <<>> THEN 0 ELSE Head(line).n + len(Tail(line))

\* line[i]
RECURSIVE char_at(_, _)
char_at(line, i) ==
    IF i < Head(line).n THEN Head(line).ch ELSE char_at(Tail(line), i - Head(line).n)

\* Line 200-202: line[:max_chars].rfind(' ') on the rest of the line from
\* `offset` on, max_chars when there is no space.
cut_index(line, offset) ==
    LET spaces == {i \in 0..89 : char_at(line, offset + i) = " "} IN
    IF spaces = {} THEN 90 ELSE CHOOSE i \in spaces : \A j \in spaces : j <= i

\* Line 206: where line[cut_index:].lstrip() starts.
RECURSIVE lstrip(_, _)
lstrip(line, from) ==
    IF from = len(line) THEN from
    ELSE IF char_at(line, from) = " " THEN lstrip(line, from + 1) ELSE from

\* Mutant of page_break: the page never ends.
page_break_Never(y_position) == y_position

\* Lines 184-187, 209-212: a new page (letter: 612 x 792 points) once the
\* position is below the bottom margin.
page_break(y_position) == IF y_position < 72 THEN 792 - 72 ELSE y_position

\* Lines 190-212: the while loop on one line, from `offset` on.  Each pass
\* draws one string; its record keeps how many characters it has, where it was
\* drawn, and how long the rest of the line was before and after the pass.
RECURSIVE wrap_line(_, _, _, _)
wrap_line(line, offset, y_position, drawn) ==
    LET rest == len(line) - offset IN
    IF rest = 0 THEN [drawn |-> drawn, y_position |-> y_position]
    ELSE LET chars == IF rest <= 90 THEN rest ELSE cut_index(line, offset)
             next == IF rest <= 90 THEN len(line) ELSE lstrip(line, offset + chars)
         IN  wrap_line(line, next, page_break(y_position - 14),
                       Append(drawn, [chars |-> chars, y |-> y_position,
                                      before |-> rest, after |-> len(line) - next]))

\* Lines 175-212: the loop over content.split('\n'), from line i on.
RECURSIVE draw_lines(_, _, _, _)
draw_lines(lines, i, y_position, drawn) ==
    IF i > Len(lines) THEN drawn
    ELSE LET w == wrap_line(lines[i], 0, page_break(y_position), <<>>) IN
         draw_lines(lines, i + 1, w.y_position, drawn \o w.drawn)

\* The lines a content string may hold: empty, short, exactly one drawn line
\* long, one character more with and without spaces, beginning with a space,
\* and long enough to fill more than a page.
ContentLines ==
    {<<>>, <<Run("x", 5)>>, <<Run("x", 90)>>, <<Run("x", 91)>>,
     <<Run("x", 40), Run(" ", 1), Run("x", 60)>>,
     <<Run(" ", 1), Run("x", 95)>>,
     <<Run(" ", 3), Run("x", 200)>>,
     <<Run("x", 89), Run(" ", 1), Run("x", 5)>>,
     <<Run("x", 90), Run(" ", 4), Run("x", 5)>>,
     <<Run("x", 50), Run(" ", 100)>>,
     <<Run("x", 4000)>>,
     <<Run("x", 10), Run(" ", 1), Run("x", 3900), Run(" ", 2), Run("x", 100)>>}

\* The content string of the request, split into its lines.
InitPdf ==
    /\ tasks = <<>>
    /\ lastrowid = 0
    /\ now = 0
    /\ pc = [r \in Requests |-> "idle"]
    /\ task = [r \in Requests |-> NoTask]
    /\ result = [r \in Requests |-> None]
    /\ exc = [r \in Requests |-> None]
    /\ response = [r \in Requests |-> NoResponse]
    /\ trace = [r \in Requests |-> NoTrace]
    /\ lastOutcome = [i \in TaskIds |-> None]
    /\ projects = <<>>
    /\ files = {}
    /\ service_available = None
    /\ documents = <<>>
    /\ assigned = {}
    /\ local_project = [r \in Requests |-> None]
    /\ \E n \in 1..MaxLines : \E lines \in [1..n -> ContentLines] :
           call = [op |-> "content", lines |-> lines]

create_pdf_request ==
    /\ call.op = "content"
    /\ call' = [op |-> "create_pdf", lines |-> call.lines,
                drawn |-> draw_lines(call.lines, 1, 792 - 130, <<>>)]
    /\ UNCHANGED <<tasks, lastrowid, now, pc, task, result, exc, response, trace,
                   lastOutcome, projects, files, service_available,
                   documents, assigned, local_project>>

NextPdf == create_pdf_request

SpecPdf == InitPdf /\ [][NextPdf]_vars

\* C30: for every content string, create_pdf's line-wrapping loop terminates
\* (each iteration strictly shortens the remaining line, including lines that
\* begin with a space or contain no space), every drawn body line has at most
\* 90 characters, and no line is drawn below the bottom margin.
C30_WrapTerminatesInMargins ==
    call.op = "create_pdf" =>
        \A i \in DOMAIN call.drawn :
            /\ call.drawn[i].after < call.drawn[i].before
            /\ call.drawn[i].chars <= 90
            /\ call.drawn[i].y >= 72

\* A line that begins with a space and has no other in its first 90
\* characters (an empty string is drawn), next to a line that runs over the
\* end of the first page.
C30_Witness ==
    /\ call.op = "create_pdf"
    /\ \E i \in DOMAIN call.drawn : call.drawn[i].chars = 0
    /\ \E i \in DOMAIN call.drawn : i > 1 /\ call.drawn[i].y > call.drawn[i - 1].y

====
